---- MODULE Spec2Model ----
(***************************************************************************)
(* A model of jvcli (src/jvcli): the version compatibility checker         *)
(* is_version_compatible, the dependency validator validate_dependencies   *)
(* and the archiver compress_package_to_tgz of src/jvcli/utils.py, and the  *)
(* API client call_api with its endpoint wrappers of                       *)
(* src/jvcli/client/lib/utils.py; validate_yaml_format and                 *)
(* validate_package_name of src/jvcli/utils.py; app_controls and           *)
(* dynamic_form of src/jvcli/client/lib/widgets.py; the publish, studio    *)
(* and server initagents commands of src/jvcli/commands.                   *)
(*                                                                         *)
(* Python strings are sequences of one-character strings, so that parsing  *)
(* and formatting are computed and not assumed.  A Python value is a       *)
(* record tagged with its type: [t |-> "str", s |-> <<...>>],              *)
(* [t |-> "None"], [t |-> "dict", items |-> <<<<key, value>>, ...>>].      *)
(***************************************************************************)
EXTENDS Integers, Sequences, FiniteSets, TLC

VARIABLES
    \* ---- is_version_compatible(version, specifiers) ----
    ver_in,      \* the `version` argument (a Python value)
    spec_in,     \* the `specifiers` argument (a Python value)
    ver_pc,      \* "start" | "done"
    ver_result,  \* what the call gave back: [kind |-> "return", value |-> ...]
    \* ---- validate_dependencies(dependencies) ----
    jvcli_version,         \* jvcli.__version__, the current platform version
    dependencies,          \* the dict argument, as its items in insertion order
    vd_pc,                 \* "start" | "loop" | "returned" | "raised"
    vd_i,                  \* position of the for loop in dependencies.items()
    missing_dependencies,  \* the local list of utils.py:142
    lookups,               \* calls made to RegistryAPI.download_package
    version_checks,        \* specifiers handed to is_version_compatible
    vd_error,              \* the exception raised to the caller, or NoError
    \* ---- compress_package_to_tgz(source_path, output_filename) ----
    fs_dirs,          \* the directories of the file system, as paths
    fs_files,         \* the regular files of the file system, as paths
    fs_files0,        \* the regular files when the call began
    source_path,      \* the `source_path` argument
    output_filename,  \* the `output_filename` argument
    tgz_pc,           \* "start" | "walk" | "files" | "returned" | "raised"
    tar_handle,       \* the archive handle: "none" | "open" | "closed"
    tar_members,      \* the member names of the archive, in order of addition
    walk_todo,        \* directories os.walk has still to visit
    walk_root,        \* `root` of the current iteration of os.walk
    walk_files,       \* the entries of `files` the inner loop has still to add
    open_calls,       \* number of calls of tarfile.open
    add_calls,        \* the file paths handed to tar.add, in order
    tgz_fault,        \* the error the library raised inside the call, or NoError
    tgz_result,       \* the value returned, or NoResult
    tgz_error,        \* the exception raised to the caller, or NoError
    \* ---- call_api and the endpoint wrappers (client/lib/utils.py) ----
    session_state,   \* st.session_state: TOKEN, ROOT_ID, EXPIRATION
    session_state0,  \* st.session_state when the call began
    api_fn,          \* the function the caller called: "call_api" or a wrapper
    api_endpoint,    \* the `endpoint` argument of call_api
    api_method,      \* the `method` argument of call_api
    api_headers,     \* the `headers` argument: PyNone or a dict
    api_pc,          \* "start" | "called" | "done"
    http_requests,   \* the requests handed to `requests`, in order
    http_reply,      \* what `requests` gave: a response, an exception, or NoReply
    api_result,      \* what call_api gave back, or NoResult
    fn_result,       \* what the function called gave back to the caller
    \* ---- validate_yaml_format(info_data, type) ----
    info_data,        \* the keys of the `info_data` dict
    yf_type,          \* the `type` argument (a string)
    template_exists,  \* os.path.exists(template_path)
    template_data,    \* the keys of the template, as yaml.safe_load gives them
    yf_pc,            \* "start" | "done"
    yf_result,        \* what the call gave back: a return or a raise
    \* ---- validate_package_name(name) ----
    pn_name,    \* the `name` argument (a string)
    pn_token,   \* what load_token() gives (a dict)
    pn_pc,      \* "start" | "done"
    pn_result,  \* what the call gave back: a return or a raise
    \* ---- app_controls(agent_id, action_id) ----
    ac_model,    \* st.session_state[model_key]: the model of the action (a dict)
    ac_model0,   \* the model when the page was first rendered
    ac_keys,     \* keys_to_iterate of the run in progress
    ac_i,        \* the position of the loop in ac_keys
    ac_pc,       \* "idle" | "loop"
    ac_runs,     \* how many times the page was rendered
    ac_entered,  \* per field rendered in this run: its key, the value it had,
                 \* and the text in its text area when there is one
    ac_errors,   \* the keys for which st.error was called in this run
    ac_writes,   \* the keys for which st.write reported an unsupported type
    \* ---- dynamic_form(field_definitions, initial_data, session_key) ----
    df_rows,     \* st.session_state[session_key]: the list of rows, or Absent
    df_initial,  \* the `initial_data` argument: None or a list of row values
    df_calls,    \* how many callbacks have run
    df_last,     \* the last step: what it was, its argument, the rows before it
    \* ---- _publish_common(path, visibility, file_only, output, publish_type) ----
    pub_token_file,  \* what load_token() gives (a dict)
    pub_has_info,    \* os.path.exists(info_path)
    pub_info,        \* info.yaml as loaded: its keys and package.name, or None
    pub_template,    \* the keys of the template of the package type
    pub_deps,        \* how validate_dependencies ends on the dependencies given
    pub_path,        \* the --path argument
    pub_file_only,   \* the --file-only flag
    pub_output,      \* the --output argument, or None
    pub_type,        \* "action" | "agent"
    pub_pc,          \* "token" | "info" | "format" | "name" | "deps" | "compress"
                     \* | "upload" | "done"
    pub_log,         \* the calls made so far, in order, each with how it ended
    pub_archive,     \* the archive written by compress_package_to_tgz, or None
    pub_uploads,     \* the arguments of each RegistryAPI.publish_action call
    pub_exit,        \* "none" | "return" | "raise"
    \* ---- the studio API (commands/studio.py) ----
    require_auth,     \* the --require-auth option of `studio launch`
    studio_request,   \* the request being served: endpoint and Authorization
    studio_pc,        \* "idle" | "depends" | "validate" | "data" | "off"
    studio_decrypts,  \* the tokens handed to decrypt for this request
    studio_reads,     \* the collections read for this request, in order
    studio_response,  \* the response to this request, or NoReply
    studio_served,    \* how many requests were answered
    \* ---- get_node_connections(node_id, depth) and get_nodes_and_edges ----
    gne_edges_db,  \* the edge collection: a set of edges
    gne_nodes_db,  \* the node collection: the set of the _id of its nodes
    gne_node_id,   \* the `node_id` argument
    gne_depth,     \* the `depth` argument
    gne_stack,     \* the calls of get_nodes_and_edges in progress, innermost
                   \* last: nid, current_depth, and the edges left to its loop
    gne_nodes,     \* the `nodes` list
    gne_edges,     \* the `edges` list
    gne_pc,        \* "call" | "run" | "done" | "off"
    \* ---- jvcli server initagents ----
    ia_running,   \* what is_server_running() gives
    ia_token,     \* what login_jivas() gives: a token, an empty string or None
    ia_clean,     \* how the clean command ends: "return" | "exit"
    ia_base_url,  \* os.environ["JIVAS_BASE_URL"], or None when it is not set
    ia_reply,     \* what requests.post gave, or NoReply
    ia_pc,        \* "check" | "login" | "clean" | "post" | "ended" | "off"
    ia_log,       \* the calls made so far, in order
    ia_requests,  \* the init_agents requests sent
    ia_exit       \* the exit status of the command, or -1 while it runs

ver_vars == <<ver_in, spec_in, ver_pc, ver_result>>
vd_vars == <<jvcli_version, dependencies, vd_pc, vd_i, missing_dependencies,
             lookups, version_checks, vd_error>>
tgz_vars == <<fs_dirs, fs_files, fs_files0, source_path, output_filename, tgz_pc,
              tar_handle, tar_members, walk_todo, walk_root, walk_files,
              open_calls, add_calls, tgz_fault, tgz_result, tgz_error>>
api_vars == <<session_state, session_state0, api_fn, api_endpoint, api_method,
              api_headers, api_pc, http_requests, http_reply, api_result, fn_result>>
yf_vars == <<info_data, yf_type, template_exists, template_data, yf_pc, yf_result>>
pn_vars == <<pn_name, pn_token, pn_pc, pn_result>>
ac_vars == <<ac_model, ac_model0, ac_keys, ac_i, ac_pc, ac_runs, ac_entered,
            ac_errors, ac_writes>>
df_vars == <<df_rows, df_initial, df_calls, df_last>>
pub_vars == <<pub_token_file, pub_has_info, pub_info, pub_template, pub_deps,
            pub_path, pub_file_only, pub_output, pub_type, pub_pc, pub_log,
            pub_archive, pub_uploads, pub_exit>>
studio_vars == <<require_auth, studio_request, studio_pc, studio_decrypts,
            studio_reads, studio_response, studio_served>>
gne_vars == <<gne_edges_db, gne_nodes_db, gne_node_id, gne_depth, gne_stack,
            gne_nodes, gne_edges, gne_pc>>
ia_vars == <<ia_running, ia_token, ia_clean, ia_base_url, ia_reply, ia_pc, ia_log, ia_requests, ia_exit>>
\* the variables of the components modelled first, and of those after them
base_vars == <<ver_vars, vd_vars, tgz_vars, api_vars>>
more_vars == <<yf_vars, pn_vars, ac_vars, df_vars, pub_vars, studio_vars,
              gne_vars, ia_vars>>
vars == <<base_vars, more_vars>>
\* what an action of one component leaves alone in the others
not_yf == <<base_vars, pn_vars, ac_vars, df_vars, pub_vars, studio_vars, gne_vars,
           ia_vars>>
not_pn == <<base_vars, yf_vars, ac_vars, df_vars, pub_vars, studio_vars, gne_vars,
           ia_vars>>
not_ac == <<base_vars, yf_vars, pn_vars, df_vars, pub_vars, studio_vars, gne_vars,
           ia_vars>>
not_df == <<base_vars, yf_vars, pn_vars, ac_vars, pub_vars, studio_vars, gne_vars,
           ia_vars>>
not_pub == <<base_vars, yf_vars, pn_vars, ac_vars, df_vars, studio_vars, gne_vars,
           ia_vars>>
not_studio == <<base_vars, yf_vars, pn_vars, ac_vars, df_vars, pub_vars, gne_vars,
           ia_vars>>
not_gne == <<base_vars, yf_vars, pn_vars, ac_vars, df_vars, pub_vars, studio_vars,
           ia_vars>>
not_ia == <<base_vars, yf_vars, pn_vars, ac_vars, df_vars, pub_vars, studio_vars,
           gne_vars>>

(***************************************************************************)
(* Bounds of the model.                                                    *)
(***************************************************************************)
\* version components of the specifier bases range over 0..MaxNum, those of
\* the versions checked over 0..MaxNum+1
MaxNum == 2
\* a dependency map holds at most MaxDeps entries
MaxDeps == 2
\* a source tree holds at most MaxFiles regular files when the call begins
MaxFiles == 4
\* the reports list of a reply holds at most MaxReports entries
MaxReports == 2
\* the fields of an action's model, and the times its page is rendered
MaxFields == 2
MaxRuns == 2
\* the rows of a form's initial data, and the callbacks run on a form
MaxRows == 2
MaxCallbacks == 4
\* the requests the studio answers
MaxRequests == 3
\* the edges of a graph, and the depth asked of get_node_connections
MaxEdges == 3
MaxDepth == 2

(***************************************************************************)
(* Python values and strings.                                              *)
(***************************************************************************)
PyStr(s) == [t |-> "str", s |-> s]
PyNone == [t |-> "None"]
PyDict(items) == [t |-> "dict", items |-> items]

Digits == <<"0", "1", "2", "3", "4", "5", "6", "7", "8", "9">>
IsDigit(c) == c \in {Digits[i] : i \in 1..10}
DigitVal(c) == (CHOOSE i \in 1..10 : Digits[i] = c) - 1

\* int(s) for a non-empty string of decimal digits
RECURSIVE ParseNat(_)
ParseNat(s) ==
    IF Len(s) = 0 THEN 0
    ELSE ParseNat(SubSeq(s, 1, Len(s) - 1)) * 10 + DigitVal(s[Len(s)])

\* str(n) for a natural number, as f"{n}" formats it
RECURSIVE IntToStr(_)
IntToStr(n) ==
    IF n < 10 THEN <<Digits[n + 1]>>
    ELSE IntToStr(n \div 10) \o <<Digits[(n % 10) + 1]>>

StartsWith(s, p) == Len(p) <= Len(s) /\ SubSeq(s, 1, Len(p)) = p
DropFirst(s, n) == SubSeq(s, n + 1, Len(s))

RECURSIVE LStrip(_)
LStrip(s) == IF Len(s) > 0 /\ s[1] = " " THEN LStrip(Tail(s)) ELSE s
RECURSIVE RStrip(_)
RStrip(s) ==
    IF Len(s) > 0 /\ s[Len(s)] = " " THEN RStrip(SubSeq(s, 1, Len(s) - 1)) ELSE s
Strip(s) == RStrip(LStrip(s))

\* s.split(c): the pieces of s between the occurrences of character c
RECURSIVE Split(_, _)
Split(s, c) ==
    IF \A i \in 1..Len(s) : s[i] # c THEN <<s>>
    ELSE LET k == CHOOSE i \in 1..Len(s) : s[i] = c /\ \A j \in 1..(i - 1) : s[j] # c
         IN <<SubSeq(s, 1, k - 1)>> \o Split(DropFirst(s, k), c)

(***************************************************************************)
(* packaging.version: parse_version and the ordering of versions.          *)
(* The grammar modelled is  \s* v? N(.N)* ([-_.]? tag [-_.]? N?)? \s*      *)
(* with tag one of a, b, c, rc, alpha, beta, pre, preview: the release and *)
(* pre-release segments of PEP 440.  Epoch, post, dev and local segments   *)
(* do not occur in the inputs of this model.                               *)
(***************************************************************************)
Separators == {"-", "_", "."}

\* the number of consecutive digits of s from position i on
RECURSIVE DigitsLen(_, _)
DigitsLen(s, i) ==
    IF i <= Len(s) /\ IsDigit(s[i]) THEN 1 + DigitsLen(s, i + 1) ELSE 0

\* the position just past the release segment N(.N)* that starts at i
\* (i itself when no digit stands there); d is the length of the digit run at i
RECURSIVE ReleaseEnd(_, _)
RECURSIVE ReleaseEndFrom(_, _, _)
ReleaseEndFrom(s, i, d) ==
    IF d = 0 THEN i
    ELSE IF i + d <= Len(s) /\ s[i + d] = "." /\ DigitsLen(s, i + d + 1) > 0
         THEN ReleaseEnd(s, i + d + 1)
         ELSE i + d
ReleaseEnd(s, i) == ReleaseEndFrom(s, i, DigitsLen(s, i))

\* the numbers of a release segment N(.N)*; d is the length of its first number
RECURSIVE ReleaseParts(_)
RECURSIVE ReleasePartsFrom(_, _)
ReleasePartsFrom(r, d) ==
    IF d = Len(r) THEN <<ParseNat(r)>>
    ELSE <<ParseNat(SubSeq(r, 1, d))>> \o ReleaseParts(DropFirst(r, d + 1))
ReleaseParts(r) == ReleasePartsFrom(r, DigitsLen(r, 1))

\* the pre-release tags and the letter each is normalised to
PreTags ==
    { [tag |-> <<"a">>, letter |-> "a"],
      [tag |-> <<"a", "l", "p", "h", "a">>, letter |-> "a"],
      [tag |-> <<"b">>, letter |-> "b"],
      [tag |-> <<"b", "e", "t", "a">>, letter |-> "b"],
      [tag |-> <<"c">>, letter |-> "rc"],
      [tag |-> <<"r", "c">>, letter |-> "rc"],
      [tag |-> <<"p", "r", "e">>, letter |-> "rc"],
      [tag |-> <<"p", "r", "e", "v", "i", "e", "w">>, letter |-> "rc"] }

\* w without the separator [-_.] it may start with
SkipSeparator(w) == IF Len(w) > 0 /\ w[1] \in Separators THEN Tail(w) ELSE w
AllDigits(x) == \A i \in 1..Len(x) : IsDigit(x[i])
\* w matches [-_.]? N? up to its end, and the number it gives (0 when absent)
PreNumberOK(w) == AllDigits(SkipSeparator(w))
PreNumber(w) == ParseNat(SkipSeparator(w))

InvalidVersion == [ok |-> FALSE]

\* the pre-release segment: u is what follows the release and a separator
MatchTag(release, u, cands) ==
    IF cands = {} THEN InvalidVersion
    ELSE [ok |-> TRUE, release |-> release,
          pre |-> LET p == CHOOSE q \in cands : TRUE
                  IN <<p.letter, PreNumber(DropFirst(u, Len(p.tag)))>>]
MatchPre(release, u) ==
    MatchTag(release, u,
             {p \in PreTags :
                StartsWith(u, p.tag) /\ PreNumberOK(DropFirst(u, Len(p.tag)))})
\* s1 from its release segment on; e is the position just past the release
MatchRelease(s1, e) ==
    IF e = 1 THEN InvalidVersion
    ELSE IF e > Len(s1)
         THEN [ok |-> TRUE, release |-> ReleaseParts(s1), pre |-> <<>>]
         ELSE MatchPre(ReleaseParts(SubSeq(s1, 1, e - 1)),
                       SkipSeparator(DropFirst(s1, e - 1)))
SkipV(s) == IF Len(s) > 0 /\ s[1] = "v" THEN Tail(s) ELSE s
\* the match of the version pattern against the whole of s (no whitespace):
\* [ok, release, pre], pre either <<>> or <<letter, number>>
MatchVersionFrom(s1) == MatchRelease(s1, ReleaseEnd(s1, 1))
MatchVersion(s) == MatchVersionFrom(SkipV(s))

\* packaging.version.parse(x): InvalidVersion for a string that does not
\* match, TypeError for a value that is no string; both are exceptions
parse_version(x) ==
    IF x.t # "str" THEN InvalidVersion ELSE MatchVersion(Strip(x.s))

\* Version.major, .minor, .micro: 0 for a component the release lacks
major(v) == IF Len(v.release) >= 1 THEN v.release[1] ELSE 0
minor(v) == IF Len(v.release) >= 2 THEN v.release[2] ELSE 0
micro(v) == IF Len(v.release) >= 3 THEN v.release[3] ELSE 0
is_prerelease(v) == v.pre # <<>>

\* the release with its trailing zeros dropped, as Version._key holds it
RECURSIVE StripZeros(_)
StripZeros(r) ==
    IF Len(r) > 0 /\ r[Len(r)] = 0 THEN StripZeros(SubSeq(r, 1, Len(r) - 1)) ELSE r

\* Python's ordering of tuples of integers
RECURSIVE TupleLess(_, _)
TupleLess(a, b) ==
    IF Len(b) = 0 THEN FALSE
    ELSE IF Len(a) = 0 THEN TRUE
    ELSE IF a[1] # b[1] THEN a[1] < b[1]
    ELSE TupleLess(Tail(a), Tail(b))

PreRank(letter) == CASE letter = "a" -> 0 [] letter = "b" -> 1 [] letter = "rc" -> 2

\* the order of the pre-release keys: a release (no pre) sorts after every
\* pre-release of the same release segment
PreLess(p, q) ==
    /\ p # <<>>
    /\ \/ q = <<>>
       \/ PreRank(p[1]) < PreRank(q[1])
       \/ PreRank(p[1]) = PreRank(q[1]) /\ p[2] < q[2]

VersionEq(a, b) == StripZeros(a.release) = StripZeros(b.release) /\ a.pre = b.pre
VersionLess(a, b) ==
    \/ TupleLess(StripZeros(a.release), StripZeros(b.release))
    \/ StripZeros(a.release) = StripZeros(b.release) /\ PreLess(a.pre, b.pre)
VersionLessEq(a, b) == VersionLess(a, b) \/ VersionEq(a, b)
\* Version(a.base_version) == Version(b.base_version)
SameBase(a, b) == StripZeros(a.release) = StripZeros(b.release)

(***************************************************************************)
(* packaging.specifiers: SpecifierSet and membership.  The operators       *)
(* modelled are >=, <=, ==, !=, < and > (no wildcard, no ~= and no ===:    *)
(* none occurs in the inputs of this model).                               *)
(***************************************************************************)
InvalidSpecifier == [ok |-> FALSE]

Operators2 == {<<">", "=">>, <<"<", "=">>, <<"=", "=">>, <<"!", "=">>}
Operators1 == {<<"<">>, <<">">>}

\* the operator a clause starts with, <<>> when it starts with none
OperatorOf(s1) ==
    IF Len(s1) >= 2 /\ SubSeq(s1, 1, 2) \in Operators2 THEN SubSeq(s1, 1, 2)
    ELSE IF Len(s1) >= 1 /\ SubSeq(s1, 1, 1) \in Operators1 THEN SubSeq(s1, 1, 1)
    ELSE <<>>
SpecifierOf(op, v) ==
    IF ~v.ok THEN InvalidSpecifier ELSE [ok |-> TRUE, op |-> op, version |-> v]
SpecifierFrom(s1, op) ==
    IF op = <<>> THEN InvalidSpecifier
    ELSE SpecifierOf(op, MatchVersion(LStrip(DropFirst(s1, Len(op)))))
SpecifierStripped(s1) == SpecifierFrom(s1, OperatorOf(s1))
\* Specifier(s): the operator and the version of one clause
Specifier(s) == SpecifierStripped(Strip(s))

\* SpecifierSet(s): the clauses of s.split(","), stripped, the empty ones
\* dropped; InvalidSpecifier when a clause does not parse
SpecifierSetOf(specs) ==
    IF \E sp \in specs : ~sp.ok THEN InvalidSpecifier
    ELSE [ok |-> TRUE, specs |-> specs]
SpecifierSetParts(parts) ==
    SpecifierSetOf({Specifier(parts[i]) :
                      i \in {k \in 1..Len(parts) : Strip(parts[k]) # <<>>}})
SpecifierSet(s) == SpecifierSetParts(Split(s, ","))

\* Specifier.prereleases: whether the clause itself names a pre-release
SpecifierPrereleases(sp) ==
    /\ sp.op \in {<<">", "=">>, <<"<", "=">>, <<"=", "=">>}
    /\ is_prerelease(sp.version)

\* the comparison of each operator (Specifier._compare_*)
SpecifierCompare(v, sp) ==
    CASE sp.op = <<">", "=">> -> VersionLessEq(sp.version, v)
      [] sp.op = <<"<", "=">> -> VersionLessEq(v, sp.version)
      [] sp.op = <<"=", "=">> -> VersionEq(v, sp.version)
      [] sp.op = <<"!", "=">> -> ~VersionEq(v, sp.version)
      [] sp.op = <<"<">> ->
            /\ VersionLess(v, sp.version)
            /\ ~(~is_prerelease(sp.version) /\ is_prerelease(v)
                 /\ SameBase(v, sp.version))
      [] sp.op = <<">">> -> VersionLess(sp.version, v)

\* a variant of SpecifierSetContains that is content with one accepting clause
SpecifierSetContains_AnyClause(v, set) ==
    LET prereleases == \E sp \in set.specs : SpecifierPrereleases(sp)
    IN IF ~prereleases /\ is_prerelease(v) THEN FALSE
       ELSE \E sp \in set.specs : SpecifierCompare(v, sp)

\* a variant of SpecifierSetContains without the refusal of pre-releases
SpecifierSetContains_NoPrereleaseRule(v, set) ==
    \A sp \in set.specs : SpecifierCompare(v, sp)

\* `v in spec_set` (SpecifierSet.contains): a pre-release is refused unless a
\* clause names a pre-release; otherwise every clause must accept v
SpecifierSetContains(v, set) ==
    LET prereleases == \E sp \in set.specs : SpecifierPrereleases(sp)
    IN IF ~prereleases /\ is_prerelease(v) THEN FALSE
       ELSE \A sp \in set.specs : SpecifierCompare(v, sp)

(***************************************************************************)
(* is_version_compatible (utils.py:80-137).  Each stage gives              *)
(* [ok |-> FALSE] when the code raises there, which the outer handler      *)
(* (utils.py:134-137) turns into the result False.                         *)
(***************************************************************************)
Raised == [ok |-> FALSE]

\* a variant of ExactMatch that compares the release numbers alone
ExactMatch_ReleaseOnly(v, exact) == SameBase(v, exact)
\* utils.py:96-98: the comparison made when specifiers parses as a version
ExactMatch(v, exact) == VersionEq(v, exact)

\* a variant of TildeRange whose upper bound is the next major version
TildeRange_NextMajor(base_version, parsed_base) ==
    IF ~parsed_base.ok THEN Raised
    ELSE [ok |-> TRUE,
          s |-> <<">", "=">> \o base_version \o <<",", "<">>
                \o IntToStr(major(parsed_base) + 1) \o <<".", "0">>]
\* utils.py:106-111: the range for "~base": ">=base,<major.(minor+1)"
TildeRange(base_version, parsed_base) ==
    IF ~parsed_base.ok THEN Raised
    ELSE [ok |-> TRUE,
          s |-> <<">", "=">> \o base_version \o <<",", "<">>
                \o IntToStr(major(parsed_base)) \o <<".">>
                \o IntToStr(minor(parsed_base) + 1)]
\* utils.py:104-105
TildeBase(base_version) == TildeRange(base_version, parse_version(PyStr(base_version)))
TildeRewrite(specifiers) ==
    IF ~StartsWith(specifiers, <<"~">>) THEN [ok |-> TRUE, s |-> specifiers]
    ELSE TildeBase(DropFirst(specifiers, 1))

\* a variant of CaretUpperBound without the cases for a major version of 0
CaretUpperBound_MajorOnly(parsed_base) ==
    <<"<">> \o IntToStr(major(parsed_base) + 1) \o <<".", "0", ".", "0">>
\* utils.py:120-125: the upper bound of "^base", set by the first non-zero
\* component of the base
CaretUpperBound(parsed_base) ==
    IF major(parsed_base) > 0
    THEN <<"<">> \o IntToStr(major(parsed_base) + 1) \o <<".", "0", ".", "0">>
    ELSE IF minor(parsed_base) > 0
    THEN <<"<", "0", ".">> \o IntToStr(minor(parsed_base) + 1) \o <<".", "0">>
    ELSE <<"<", "0", ".", "0", ".">> \o IntToStr(micro(parsed_base) + 1)
\* utils.py:116-126: the range for "^base": ">=base,<upper bound"
CaretRange(base_version, parsed_base) ==
    IF ~parsed_base.ok THEN Raised
    ELSE [ok |-> TRUE,
          s |-> <<">", "=">> \o base_version \o <<",">> \o CaretUpperBound(parsed_base)]
\* utils.py:114-115
CaretBase(base_version) == CaretRange(base_version, parse_version(PyStr(base_version)))
CaretRewrite(specifiers) ==
    IF ~StartsWith(specifiers, <<"^">>) THEN [ok |-> TRUE, s |-> specifiers]
    ELSE CaretBase(DropFirst(specifiers, 1))

\* utils.py:129-132: the (rewritten) specifiers as a SpecifierSet, and the test
SpecifierSetCheck(v, spec_set) ==
    IF ~spec_set.ok THEN Raised
    ELSE [ok |-> TRUE, value |-> SpecifierSetContains(v, spec_set)]
\* utils.py:114-132, on the specifiers the tilde stage left
AfterCaret(v, t2) ==
    IF ~t2.ok THEN Raised ELSE SpecifierSetCheck(v, SpecifierSet(t2.s))
AfterTilde(v, t1) ==
    IF ~t1.ok THEN Raised ELSE AfterCaret(v, CaretRewrite(t1.s))
\* utils.py:96-132, once the version has parsed
AfterExact(v, exact_version, specifiers) ==
    IF exact_version.ok THEN [ok |-> TRUE, value |-> ExactMatch(v, exact_version)]
    \* specifiers.startswith on a value that is no string: AttributeError
    ELSE IF specifiers.t # "str" THEN Raised
    ELSE AfterTilde(v, TildeRewrite(specifiers.s))
AfterVersion(v, specifiers) ==
    IF ~v.ok THEN Raised ELSE AfterExact(v, parse_version(specifiers), specifiers)
\* utils.py:92-132: the body of the try; [ok |-> FALSE] when it raises
CompatibleBody(version, specifiers) ==
    AfterVersion(parse_version(version), specifiers)

\* utils.py:134-137: the handler returns False
CompatibleResult(r) == IF r.ok THEN r.value ELSE FALSE
\* utils.py:91-137
is_version_compatible(version, specifiers) ==
    CompatibleResult(CompatibleBody(version, specifiers))

(***************************************************************************)
(* The inputs of the model.                                                *)
(***************************************************************************)
VerStr(m, n, p) == IntToStr(m) \o <<".">> \o IntToStr(n) \o <<".">> \o IntToStr(p)

S_empty == <<>>
S_invalid == <<"i", "n", "v", "a", "l", "i", "d">>
S_alpha == <<"1", ".", "0", ".", "0", "-", "a", "l", "p", "h", "a">>
S_beta == <<"1", ".", "0", ".", "0", "-", "b", "e", "t", "a">>
S_range23 == <<">", "=", "2", ".", "0", ".", "0", ",", "<", "3", ".", "0", ".", "0">>
S_ge99 == <<">", "=", "9", "9", ".", "0", ".", "0">>
S_ge_invalid == <<">", "=">> \o S_invalid
S_ge100 == <<">", "=", "1", ".", "0", ".", "0">>
S_ge200 == <<">", "=", "2", ".", "0", ".", "0">>
S_caret100 == <<"^", "1", ".", "0", ".", "0">>
S_caret200 == <<"^", "2", ".", "0", ".", "0">>
S_rc == <<"2", ".", "0", ".", "0", "-", "r", "c", "1">>
S_lt200 == <<"<", "2", ".", "0", ".", "0">>
S_range02 == <<">", "=", "0", ".", "1", ".", "0", ",">> \o S_lt200
S_gt1_le2 == <<">", "1", ".", "0", ".", "0", ",", "<", "=", "2", ".", "0", ".", "0">>
S_ne100 == <<"!", "=", "1", ".", "0", ".", "0">>
S_eq100 == <<"=", "=", "1", ".", "0", ".", "0">>
S_ge_alpha_lt2 == <<">", "=">> \o S_alpha \o <<",">> \o S_lt200
S_ge1_lt2 == S_ge100 \o <<",">> \o S_lt200
S_caret_alpha == <<"^">> \o S_alpha

\* the versions checked: every M.N.P over 0..MaxNum+1, some with larger
\* components, and the special cases
ReleaseTriples ==
    {<<m, n, p>> : m \in 0..(MaxNum + 1), n \in 0..(MaxNum + 1), p \in 0..(MaxNum + 1)}
    \cup {<<2, 1, 5>>, <<1, 10, 0>>, <<0, 10, 0>>}
ReleaseVersions == {PyStr(VerStr(r[1], r[2], r[3])) : r \in ReleaseTriples}
OtherVersions ==
    { PyStr(S_empty), PyNone, PyStr(S_invalid), PyStr(<<"1", ".", "0">>),
      PyStr(S_alpha), PyStr(S_beta), PyStr(S_rc) }
Versions == ReleaseVersions \cup OtherVersions

\* the specifiers: M.N.P, ~M.N.P and ^M.N.P for every base over 0..MaxNum and
\* some with larger components, and the special cases
BaseTriples ==
    {<<m, n, p>> : m \in 0..MaxNum, n \in 0..MaxNum, p \in 0..MaxNum}
    \cup {<<1, 9, 0>>, <<0, 9, 0>>}
Bases == {VerStr(r[1], r[2], r[3]) : r \in BaseTriples}
OtherSpecifiers ==
    { PyStr(S_empty), PyNone, PyStr(S_invalid), PyStr(S_ge_invalid),
      PyStr(S_range23), PyStr(S_ge99), PyStr(S_alpha), PyStr(S_beta),
      PyStr(<<"~">> \o S_invalid), PyStr(<<"^">> \o S_invalid),
      PyStr(S_ge_alpha_lt2),
      PyStr(S_ge100 \o <<",", " ", "<", "2", ".", "0", ".", "0">>),
      PyStr(S_caret_alpha), PyStr(S_ge1_lt2), PyStr(S_range02),
      PyStr(S_gt1_le2), PyStr(S_ne100), PyStr(S_eq100) }
Specifiers ==
    {PyStr(b) : b \in Bases} \cup {PyStr(<<"~">> \o b) : b \in Bases}
    \cup {PyStr(<<"^">> \o b) : b \in Bases} \cup OtherSpecifiers

NoResult == [kind |-> "none"]
NoError == [kind |-> "none"]

(***************************************************************************)
(* A call of is_version_compatible.                                        *)
(***************************************************************************)
VerInit ==
    /\ ver_in \in Versions
    /\ spec_in \in Specifiers
    /\ ver_pc = "start"
    /\ ver_result = NoResult

VerIdle ==
    /\ ver_in = PyNone
    /\ spec_in = PyNone
    /\ ver_pc = "idle"
    /\ ver_result = NoResult

CallIsVersionCompatible ==
    /\ ver_pc = "start"
    /\ ver_result' = [kind |-> "return",
                      value |-> is_version_compatible(ver_in, spec_in)]
    /\ ver_pc' = "done"
    /\ UNCHANGED <<ver_in, spec_in, vd_vars, tgz_vars, api_vars, more_vars>>

(***************************************************************************)
(* validate_dependencies (utils.py:140-157).                               *)
(***************************************************************************)
K_jivas == <<"j", "i", "v", "a", "s">>
K_actions == <<"a", "c", "t", "i", "o", "n", "s">>
K_pip == <<"p", "i", "p">>
K_unknown == <<"u", "n", "k", "n", "o", "w", "n">>

\* jvcli.__version__ (utils.py:12)
PlatformVersions == {PyStr(<<"2", ".", "1", ".", "0">>), PyStr(<<"2", ".", "0", ".", "0">>)}

\* the values a dependency map gives each key: a specifier for "jivas",
\* a mapping from package name to specifier (or a bare specifier) otherwise
NestedA == PyDict(<<<<PyStr(<<"a">>), PyStr(S_caret100)>>>>)
NestedAB == PyDict(<<<<PyStr(<<"a">>), PyStr(S_caret100)>>,
                     <<PyStr(<<"b">>), PyStr(S_ge200)>>>>)
DepValues(key) ==
    CASE key = K_jivas ->
            {PyStr(S_range23), PyStr(S_ge99), PyStr(S_caret200),
             PyStr(<<"2", ".", "1", ".", "0">>)}
      [] key = K_actions -> {NestedA, NestedAB}
      [] key = K_pip -> {PyStr(S_ge100), NestedA}
      [] key = K_unknown -> {PyStr(S_ge100)}
DepKeys == {K_jivas, K_actions, K_pip, K_unknown}
DepEntries == UNION {{<<k, x>> : x \in DepValues(k)} : k \in DepKeys}

\* the items of a dict, in insertion order: no key twice
RECURSIVE ItemLists(_)
ItemLists(n) ==
    IF n = 0 THEN {<<>>}
    ELSE LET shorter == ItemLists(n - 1)
         IN shorter \cup
            {Append(d, e) : d \in {x \in shorter : Len(x) = n - 1},
                            e \in DepEntries}
DependencyMaps ==
    {d \in ItemLists(MaxDeps) : \A i, j \in 1..Len(d) : i # j => d[i][1] # d[j][1]}

\* RegistryAPI.download_package(name, version, suppress_error=True): the
\* package found, or nothing
LookupResults == BOOLEAN

\* the f-string of utils.py:146
JivasEntry(specifier) == PyStr(K_jivas \o <<" ">> \o specifier.s)
\* the f-string of utils.py:154, f"{dep} {specifier}", for a value of any type
GroupEntry(dep, specifier) == [t |-> "fmt", dep |-> dep, specifier |-> specifier]

VdInit ==
    /\ jvcli_version \in PlatformVersions
    /\ dependencies \in DependencyMaps
    /\ vd_pc = "start"
    /\ vd_i = 0
    /\ missing_dependencies = <<>>
    /\ lookups = <<>>
    /\ version_checks = <<>>
    /\ vd_error = NoError

VdIdle ==
    /\ jvcli_version = PyNone
    /\ dependencies = <<>>
    /\ vd_pc = "idle"
    /\ vd_i = 0
    /\ missing_dependencies = <<>>
    /\ lookups = <<>>
    /\ version_checks = <<>>
    /\ vd_error = NoError

\* utils.py:142-143: the empty list, and the loop entered
vd_begin ==
    /\ vd_pc = "start"
    /\ missing_dependencies' = <<>>
    /\ vd_i' = 1
    /\ vd_pc' = "loop"
    /\ UNCHANGED <<jvcli_version, dependencies, lookups, version_checks, vd_error,
                   ver_vars, tgz_vars, api_vars, more_vars>>

\* a variant of vd_check_jivas whose test lacks the "not"
vd_check_jivas_Inverted ==
    /\ vd_pc = "loop"
    /\ vd_i <= Len(dependencies)
    /\ LET dep == dependencies[vd_i][1]
           specifier == dependencies[vd_i][2]
       IN /\ dep = K_jivas
          /\ version_checks' = Append(version_checks, specifier)
          /\ missing_dependencies' =
                IF is_version_compatible(jvcli_version, specifier)
                THEN Append(missing_dependencies, JivasEntry(specifier))
                ELSE missing_dependencies
    /\ vd_i' = vd_i + 1
    /\ UNCHANGED <<jvcli_version, dependencies, vd_pc, lookups, vd_error, ver_vars, tgz_vars, api_vars, more_vars>>
\* utils.py:144-146: the entry "jivas" is checked against the platform version
vd_check_jivas ==
    /\ vd_pc = "loop"
    /\ vd_i <= Len(dependencies)
    /\ LET dep == dependencies[vd_i][1]
           specifier == dependencies[vd_i][2]
       IN /\ dep = K_jivas
          /\ version_checks' = Append(version_checks, specifier)
          /\ missing_dependencies' =
                IF ~is_version_compatible(jvcli_version, specifier)
                THEN Append(missing_dependencies, JivasEntry(specifier))
                ELSE missing_dependencies
    /\ vd_i' = vd_i + 1
    /\ UNCHANGED <<jvcli_version, dependencies, vd_pc, lookups, vd_error, ver_vars, tgz_vars, api_vars, more_vars>>

\* utils.py:148-154: any other entry is looked up in the registry under its
\* own key, with its whole value as the version; the append of line 154 is
\* guarded by dep == "jivas", which is false in this branch
vd_lookup ==
    /\ vd_pc = "loop"
    /\ vd_i <= Len(dependencies)
    /\ LET dep == dependencies[vd_i][1]
           specifier == dependencies[vd_i][2]
       IN /\ dep # K_jivas
          /\ \E package \in LookupResults :
                /\ lookups' = Append(lookups, [name |-> dep, version |-> specifier,
                                               package |-> package])
                /\ missing_dependencies' =
                      IF ~package /\ dep = K_jivas
                      THEN Append(missing_dependencies, GroupEntry(dep, specifier))
                      ELSE missing_dependencies
    /\ vd_i' = vd_i + 1
    /\ UNCHANGED <<jvcli_version, dependencies, vd_pc, version_checks, vd_error,
                   ver_vars, tgz_vars, api_vars, more_vars>>

\* a variant of vd_finish that raises whatever the list holds
vd_finish_AlwaysRaises ==
    /\ vd_pc = "loop"
    /\ vd_i > Len(dependencies)
    /\ vd_pc' = "raised"
    /\ vd_error' = [kind |-> "ValueError",
                    message |-> "Dependencies not found in registry",
                    items |-> missing_dependencies]
    /\ UNCHANGED <<jvcli_version, dependencies, vd_i, missing_dependencies, lookups,
                   version_checks, ver_vars, tgz_vars, api_vars, more_vars>>
\* utils.py:156-157: after the loop, one ValueError when the list is not empty
vd_finish ==
    /\ vd_pc = "loop"
    /\ vd_i > Len(dependencies)
    /\ IF missing_dependencies # <<>>
       THEN /\ vd_pc' = "raised"
            /\ vd_error' = [kind |-> "ValueError",
                            message |-> "Dependencies not found in registry",
                            items |-> missing_dependencies]
       ELSE /\ vd_pc' = "returned"
            /\ vd_error' = NoError
    /\ UNCHANGED <<jvcli_version, dependencies, vd_i, missing_dependencies, lookups,
                   version_checks, ver_vars, tgz_vars, api_vars, more_vars>>

(***************************************************************************)
(* compress_package_to_tgz (utils.py:160-183).  A path is the sequence of  *)
(* its components; the file system is the set of its directories and the   *)
(* set of its regular files.                                               *)
(***************************************************************************)
N_jac_gen == "__jac_gen__"
N_pycache == "__pycache__"

\* os.path.join(root, file)
PathJoin(root, name) == Append(root, name)
\* os.path.dirname and os.path.basename
DirName(p) == SubSeq(p, 1, Len(p) - 1)
BaseName(p) == p[Len(p)]
IsPrefix(d, p) == Len(d) <= Len(p) /\ SubSeq(p, 1, Len(d)) = d

\* the number of leading components two paths share, from i on
RECURSIVE CommonLen(_, _, _)
CommonLen(p, q, i) ==
    IF i < Len(p) /\ i < Len(q) /\ p[i + 1] = q[i + 1]
    THEN CommonLen(p, q, i + 1)
    ELSE i
\* os.path.relpath(path, start): one ".." for each component of start that
\* the path does not share, then the rest of the path
RelPathFrom(path, start, c) ==
    [i \in 1..(Len(start) - c) |-> ".."] \o SubSeq(path, c + 1, Len(path))
RelPath(path, start) == RelPathFrom(path, start, CommonLen(path, start, 0))

\* a variant of ArcName that keeps the path as it was walked
ArcName_AsWalked(file_path, start) == file_path
\* utils.py:181
ArcName(file_path, start) == RelPath(file_path, start)

\* a variant of PruneDirs that forgets __pycache__
PruneDirs_JacGenOnly(dirs) == dirs \ {N_jac_gen}
\* utils.py:175-178: what is left of `dirs` for os.walk to descend into
PruneDirs(dirs) == (dirs \ {N_jac_gen}) \ {N_pycache}

\* os.walk's split of the entries of a directory into `dirs` and `files`
EntriesOf(root, paths) ==
    {BaseName(x) : x \in {y \in paths : Len(y) = Len(root) + 1 /\ IsPrefix(root, y)}}

\* a variant of TarAdd that archives whatever file it is given
TarAdd_NoSkip(members, archive, name, arcname) == Append(members, arcname)
\* TarFile.add(name, arcname): the archive itself is skipped
TarAdd(members, archive, name, arcname) ==
    IF name = archive THEN members ELSE Append(members, arcname)

\* a variant of TarFileExit that leaves the handle as it is on an exception
TarFileExit_OpenOnError(handle, raised) == IF raised THEN handle ELSE "closed"
\* TarFile.__exit__ (the `with` of utils.py:172): the handle is closed on a
\* normal exit and on an exception alike, and the exception is not suppressed
TarFileExit(handle, raised) == "closed"

\* the filesystem errors the library raises
FileNotFoundError == [kind |-> "FileNotFoundError"]
FsErrors == {[kind |-> "PermissionError"], [kind |-> "OSError"], FileNotFoundError}
\* tarfile.open on a path whose directory is missing raises FileNotFoundError;
\* on any path it may raise another filesystem error
OpenErrors(dirs, output) ==
    IF DirName(output) \in dirs THEN FsErrors \ {FileNotFoundError}
    ELSE {FileNotFoundError}

\* the source trees: files of a package, some of them under the excluded
\* directories at several depths, and a regular file named like one
TreeFiles ==
    { <<"file1.txt">>, <<"subdir", "file2.txt">>, <<N_jac_gen, "x">>,
      <<N_pycache, "y">>, <<"subdir", N_pycache, "y">>,
      <<"subdir", N_jac_gen, "deep", "x">>, <<"lib", N_pycache>> }
SourcePaths == {<<"pkg">>, <<"work", "pkg">>}
\* the output inside the source directory, in another directory, and in a
\* directory that does not exist
OutputPaths(src) ==
    {PathJoin(src, "out.tgz"), <<"out", "out.tgz">>, <<"nodir", "out.tgz">>}
Parents(p) == {SubSeq(p, 1, k) : k \in 1..(Len(p) - 1)}
DirsOf(files) == UNION {Parents(f) : f \in files}

TgzInitFrom(src, files, dirs, out, stale) ==
    /\ source_path = src
    /\ output_filename = out
    /\ fs_dirs = dirs
    /\ fs_files = files \cup (IF stale /\ DirName(out) \in dirs THEN {out} ELSE {})
    /\ fs_files0 = fs_files
    /\ tgz_pc = "start"
    /\ tar_handle = "none"
    /\ tar_members = <<>>
    /\ walk_todo = {}
    /\ walk_root = <<>>
    /\ walk_files = {}
    /\ open_calls = 0
    /\ add_calls = <<>>
    /\ tgz_fault = NoError
    /\ tgz_result = NoResult
    /\ tgz_error = NoError

\* the source directory exists and holds a tree, or it does not exist; an
\* earlier archive may lie at the output path
TgzInit ==
    \E src \in SourcePaths, stale \in BOOLEAN :
      \E out \in OutputPaths(src) :
        \/ \E tree \in SUBSET TreeFiles :
              /\ Cardinality(tree) <= MaxFiles
              /\ TgzInitFrom(src, {src \o f : f \in tree},
                             {<<"out">>, src} \cup Parents(src)
                                \cup DirsOf({src \o f : f \in tree}),
                             out, stale)
        \/ TgzInitFrom(src, {}, {<<"out">>} \cup Parents(src), out, stale)

TgzIdle ==
    /\ source_path = <<>>
    /\ output_filename = <<>>
    /\ fs_dirs = {}
    /\ fs_files = {}
    /\ fs_files0 = {}
    /\ tgz_pc = "idle"
    /\ tar_handle = "none"
    /\ tar_members = <<>>
    /\ walk_todo = {}
    /\ walk_root = <<>>
    /\ walk_files = {}
    /\ open_calls = 0
    /\ add_calls = <<>>
    /\ tgz_fault = NoError
    /\ tgz_result = NoResult
    /\ tgz_error = NoError

\* utils.py:172: tarfile.open(output_filename, "w:gz") creates the output file,
\* or truncates the one that is there, and gives the handle
tgz_open ==
    /\ tgz_pc = "start"
    /\ DirName(output_filename) \in fs_dirs
    /\ open_calls' = open_calls + 1
    /\ fs_files' = fs_files \cup {output_filename}
    /\ tar_handle' = "open"
    /\ walk_todo' = {source_path}
    /\ tgz_pc' = "walk"
    /\ UNCHANGED <<fs_dirs, fs_files0, source_path, output_filename, tar_members,
                   walk_root, walk_files, add_calls, tgz_fault, tgz_result,
                   tgz_error, ver_vars, vd_vars, api_vars, more_vars>>

\* utils.py:172: tarfile.open raises; no handler in the function, the error
\* reaches the caller
tgz_open_fails ==
    /\ tgz_pc = "start"
    /\ \E e \in OpenErrors(fs_dirs, output_filename) :
          /\ tgz_fault' = e
          /\ tgz_error' = e
    /\ open_calls' = open_calls + 1
    /\ tgz_pc' = "raised"
    /\ UNCHANGED <<fs_dirs, fs_files, fs_files0, source_path, output_filename,
                   tar_handle, tar_members, walk_todo, walk_root, walk_files,
                   add_calls, tgz_result, ver_vars, vd_vars, api_vars, more_vars>>

\* utils.py:173-178: one iteration of os.walk, top-down.  A directory that
\* cannot be listed yields nothing (os.walk ignores the error of scandir);
\* the subdirectories left in `dirs` are visited later.
tgz_walk_into(root, files, dirs) ==
    /\ walk_root' = root
    /\ walk_files' = files
    /\ walk_todo' = (walk_todo \ {root}) \cup {PathJoin(root, d) : d \in PruneDirs(dirs)}
    /\ tgz_pc' = IF files = {} THEN "walk" ELSE "files"
tgz_walk ==
    /\ tgz_pc = "walk"
    /\ \E root \in walk_todo :
          IF root \in fs_dirs
          THEN tgz_walk_into(root, EntriesOf(root, fs_files), EntriesOf(root, fs_dirs))
          ELSE tgz_walk_into(root, {}, {})
    /\ UNCHANGED <<fs_dirs, fs_files, fs_files0, source_path, output_filename,
                   tar_handle, tar_members, open_calls, add_calls, tgz_fault,
                   tgz_result, tgz_error, ver_vars, vd_vars, api_vars, more_vars>>

\* utils.py:179-182: one iteration of the inner loop, tar.add succeeds
tgz_add_path(file, file_path) ==
    /\ add_calls' = Append(add_calls, file_path)
    /\ tar_members' = TarAdd(tar_members, output_filename, file_path,
                             ArcName(file_path, source_path))
    /\ walk_files' = walk_files \ {file}
    /\ tgz_pc' = IF walk_files \ {file} = {} THEN "walk" ELSE "files"
tgz_add ==
    /\ tgz_pc = "files"
    /\ \E file \in walk_files : tgz_add_path(file, PathJoin(walk_root, file))
    /\ UNCHANGED <<fs_dirs, fs_files, fs_files0, source_path, output_filename,
                   tar_handle, walk_todo, walk_root, open_calls, tgz_fault,
                   tgz_result, tgz_error, ver_vars, vd_vars, api_vars, more_vars>>

\* a variant of tgz_add_fails that swallows the error and goes on with the
\* next file
tgz_add_fails_Swallowed ==
    /\ tgz_pc = "files"
    /\ \E file \in walk_files, e \in FsErrors :
          /\ PathJoin(walk_root, file) # output_filename
          /\ add_calls' = Append(add_calls, PathJoin(walk_root, file))
          /\ tgz_fault' = e
          /\ walk_files' = walk_files \ {file}
          /\ tgz_pc' = IF walk_files \ {file} = {} THEN "walk" ELSE "files"
    /\ UNCHANGED <<fs_dirs, fs_files, fs_files0, source_path, output_filename,
                   tar_handle, tar_members, walk_todo, walk_root, open_calls,
                   tgz_result, tgz_error, ver_vars, vd_vars, api_vars, more_vars>>

\* utils.py:182: tar.add raises on a file it cannot read; the `with` closes
\* the handle and the error reaches the caller
tgz_add_fails ==
    /\ tgz_pc = "files"
    /\ \E file \in walk_files, e \in FsErrors :
          /\ PathJoin(walk_root, file) # output_filename
          /\ add_calls' = Append(add_calls, PathJoin(walk_root, file))
          /\ tgz_fault' = e
          /\ tgz_error' = e
    /\ tar_handle' = TarFileExit(tar_handle, TRUE)
    /\ tgz_pc' = "raised"
    /\ UNCHANGED <<fs_dirs, fs_files, fs_files0, source_path, output_filename,
                   tar_members, walk_todo, walk_root, walk_files, open_calls,
                   tgz_result, ver_vars, vd_vars, api_vars, more_vars>>

\* utils.py:172, 183: the walk is over, the `with` closes the handle and the
\* output path is returned
tgz_return ==
    /\ tgz_pc = "walk"
    /\ walk_todo = {}
    /\ tar_handle' = TarFileExit(tar_handle, FALSE)
    /\ tgz_result' = [kind |-> "return", value |-> output_filename]
    /\ tgz_pc' = "returned"
    /\ UNCHANGED <<fs_dirs, fs_files, fs_files0, source_path, output_filename,
                   tar_members, walk_todo, walk_root, walk_files, open_calls,
                   add_calls, tgz_fault, tgz_error, ver_vars, vd_vars, api_vars, more_vars>>


(***************************************************************************)
(* call_api and the endpoint wrappers (client/lib/utils.py:105-243).       *)
(* A dict of this component has plain strings as keys.                     *)
(***************************************************************************)
PyList(items) == [t |-> "list", items |-> items]
\* a key st.session_state does not hold
Absent == [t |-> "absent"]
NoReply == [kind |-> "none"]

\* the truth value Python gives a value in `if value:`
Truthy(v) ==
    CASE v.t = "None" -> FALSE
      [] v.t = "str" -> v.s # <<>>
      [] v.t \in {"dict", "list"} -> v.items # <<>>
      [] v.t = "int" -> v.n # 0
      [] OTHER -> TRUE

\* dict.get(key, default) and d[key] = value
DictGet(d, key, default) ==
    IF \E i \in DOMAIN d.items : d.items[i][1] = key
    THEN d.items[CHOOSE i \in DOMAIN d.items : d.items[i][1] = key][2]
    ELSE default
DictSet(d, key, value) ==
    IF \E i \in DOMAIN d.items : d.items[i][1] = key
    THEN PyDict([i \in DOMAIN d.items |->
                    IF d.items[i][1] = key THEN <<key, value>> ELSE d.items[i]])
    ELSE PyDict(Append(d.items, <<key, value>>))

\* st.session_state.get(key, "")
SessionGet(state, key) == IF state[key] = Absent THEN PyStr(<<>>) ELSE state[key]
\* client/lib/utils.py:237-243
get_user_info(state) ==
    [root_id |-> SessionGet(state, "ROOT_ID"),
     token |-> SessionGet(state, "TOKEN"),
     expiration |-> SessionGet(state, "EXPIRATION")]

\* a variant of HasToken that asks only for a token that is not None
HasToken_NotNone(ctx) == ctx.token # PyNone
\* client/lib/utils.py:115
HasToken(ctx) == Truthy(ctx.token)

\* client/lib/utils.py:117-118: the headers of the request
Bearer == <<"B", "e", "a", "r", "e", "r", " ">>
RequestHeaders(headers, ctx) ==
    DictSet(IF Truthy(headers) THEN headers ELSE PyDict(<<>>),
            "Authorization", PyStr(Bearer \o ctx.token.s))
HttpRequest(method, endpoint, headers, ctx) ==
    [method |-> method, endpoint |-> endpoint,
     headers |-> RequestHeaders(headers, ctx)]

\* a variant of OnUnauthorized that leaves the session as it is
OnUnauthorized_Keep(state) == state
\* client/lib/utils.py:130: st.session_state.EXPIRATION = ""
OnUnauthorized(state) == [state EXCEPT !.EXPIRATION = PyStr(<<>>)]
\* client/lib/utils.py:137: st.session_state.EXPIRATION = ""
OnException(state) == [state EXCEPT !.EXPIRATION = PyStr(<<>>)]

\* what response.json() gives for a body that is no JSON: an exception
InvalidJson == [t |-> "invalid"]
\* client/lib/utils.py:129-135 and 140: the session and the value returned
\* once `requests` has given a response
ResponseOutcome(state, response) ==
    IF response.status = 401
    THEN [session |-> OnUnauthorized(state), value |-> PyNone]
    ELSE IF response.status \in {200, 501, 503}
    THEN IF response.json = InvalidJson
         THEN [session |-> OnException(state), value |-> PyNone]
         ELSE [session |-> state, value |-> response.json]
    ELSE [session |-> state, value |-> PyNone]

\* the endpoint wrappers, client/lib/utils.py:143-234
JIVAS_BASE_URL == "http://localhost:8000"
Wrappers ==
    {"call_healthcheck", "call_get_agent", "call_list_actions", "call_get_action",
     "call_update_action", "call_update_agent", "call_import_agent"}
\* the walker each wrapper posts to
WrapperWalker(fn) ==
    CASE fn = "call_healthcheck" -> "healthcheck"
      [] fn = "call_get_agent" -> "get_agent"
      [] fn = "call_list_actions" -> "list_actions"
      [] fn = "call_get_action" -> "get_action"
      [] fn = "call_update_action" -> "update_action"
      [] fn = "call_update_agent" -> "update_agent"
      [] fn = "call_import_agent" -> "import_agent"
WrapperEndpoint(fn) == <<JIVAS_BASE_URL, "/walker/", WrapperWalker(fn)>>
\* the wrappers that hand a `headers` argument on to call_api
WrappersWithHeaders == {"call_healthcheck", "call_import_agent"}

\* the value each wrapper returns when there is nothing to report
WrapperDefault(fn) ==
    CASE fn = "call_healthcheck" -> PyDict(<<>>)
      [] fn = "call_get_agent" -> PyDict(<<>>)
      [] fn = "call_list_actions" -> PyList(<<>>)
      [] fn = "call_get_action" -> PyList(<<>>)
      [] fn = "call_update_action" -> PyDict(<<>>)
      [] fn = "call_update_agent" -> PyDict(<<>>)
      [] fn = "call_import_agent" -> PyList(<<>>)

\* `reports[0] if reports else default`
FirstReport(reports, default) ==
    IF Truthy(reports)
    THEN [kind |-> "return", value |-> reports.items[1]]
    ELSE [kind |-> "return", value |-> default]
\* the body of a wrapper after call_api: `result.get` on a value that is no
\* dict raises AttributeError
WrapperOutcome(fn, result) ==
    IF ~Truthy(result) THEN [kind |-> "return", value |-> WrapperDefault(fn)]
    ELSE IF result.t # "dict" THEN [kind |-> "raise", error |-> "AttributeError"]
    ELSE FirstReport(DictGet(result, "reports", PyList(<<>>)), WrapperDefault(fn))

\* the inputs: sessions, arguments and replies; the body of a reply is a JSON
\* object, as the walker API gives, or no JSON at all
S_tok == <<"t", "o", "k">>
Sessions ==
    [TOKEN : {Absent, PyStr(<<>>), PyStr(S_tok)},
     ROOT_ID : {Absent, PyStr(<<"r", "1">>)},
     EXPIRATION : {Absent, PyStr(<<>>), PyStr(<<"9", "9">>)}]
Endpoints == {<<JIVAS_BASE_URL, "/walker/", "healthcheck">>, <<JIVAS_BASE_URL, "/user/", "login">>}
Methods == {"POST", "GET", "PUT"}
HeaderArgs == {PyNone, PyDict(<< <<"X-Trace", PyStr(<<"1">>)>> >>)}
ReportValues == {PyDict(<< <<"id", PyStr(<<"a">>)>> >>), PyList(<<>>)}
ReportLists == UNION {[1..n -> ReportValues] : n \in 0..MaxReports}
Bodies ==
    {PyDict(<< <<"reports", PyList(r)>> >>) : r \in ReportLists}
    \cup { PyDict(<<>>), PyDict(<< <<"status", PyStr(<<"o", "k">>)>> >>),
           PyDict(<< <<"reports", PyNone>> >>), InvalidJson }
Statuses == {200, 401, 404, 500, 501, 503}
Responses == [kind : {"response"}, status : Statuses, json : Bodies]

ApiInitFrom(fn, endpoint, method, headers) ==
    /\ api_fn = fn
    /\ api_endpoint = endpoint
    /\ api_method = method
    /\ api_headers = headers
    /\ session_state \in Sessions
    /\ session_state0 = session_state
    /\ api_pc = "start"
    /\ http_requests = <<>>
    /\ http_reply = NoReply
    /\ api_result = NoResult
    /\ fn_result = NoResult

\* call_api called with any endpoint, method and headers, or a wrapper
\* called, which calls call_api with its endpoint and the default method
ApiInit ==
    \/ \E endpoint \in Endpoints, method \in Methods, headers \in HeaderArgs :
          ApiInitFrom("call_api", endpoint, method, headers)
    \/ \E fn \in Wrappers :
          \E headers \in (IF fn \in WrappersWithHeaders THEN HeaderArgs ELSE {PyNone}) :
             ApiInitFrom(fn, WrapperEndpoint(fn), "POST", headers)

ApiIdle ==
    /\ api_fn = "none"
    /\ api_endpoint = <<>>
    /\ api_method = "none"
    /\ api_headers = PyNone
    /\ session_state = [TOKEN |-> Absent, ROOT_ID |-> Absent, EXPIRATION |-> Absent]
    /\ session_state0 = session_state
    /\ api_pc = "idle"
    /\ http_requests = <<>>
    /\ http_reply = NoReply
    /\ api_result = NoResult
    /\ fn_result = NoResult

\* call_api hands `value` back: to the caller, or to the wrapper that called it
api_returns(value) ==
    /\ api_result' = [kind |-> "return", value |-> value]
    /\ IF api_fn = "call_api"
       THEN /\ fn_result' = [kind |-> "return", value |-> value]
            /\ api_pc' = "done"
       ELSE /\ fn_result' = fn_result
            /\ api_pc' = "called"

\* client/lib/utils.py:113-115, 140: no token in the session, nothing is sent
api_call_no_token ==
    /\ api_pc = "start"
    /\ ~HasToken(get_user_info(session_state))
    /\ api_returns(PyNone)
    /\ UNCHANGED <<session_state, session_state0, api_fn, api_endpoint, api_method,
                   api_headers, http_requests, http_reply, ver_vars, vd_vars,
                   tgz_vars, more_vars>>

\* client/lib/utils.py:126-127, 136-140: a method that is neither POST nor GET
\* raises ValueError inside the try; the handler clears EXPIRATION
api_call_unsupported ==
    /\ api_pc = "start"
    /\ HasToken(get_user_info(session_state))
    /\ api_method \notin {"POST", "GET"}
    /\ session_state' = OnException(session_state)
    /\ api_returns(PyNone)
    /\ UNCHANGED <<session_state0, api_fn, api_endpoint, api_method, api_headers,
                   http_requests, http_reply, ver_vars, vd_vars, tgz_vars, more_vars>>

\* client/lib/utils.py:119-125, 136-140: requests.post or requests.get raises
api_call_raises ==
    /\ api_pc = "start"
    /\ HasToken(get_user_info(session_state))
    /\ api_method \in {"POST", "GET"}
    /\ http_requests' = Append(http_requests,
            HttpRequest(api_method, api_endpoint, api_headers,
                        get_user_info(session_state)))
    /\ http_reply' = [kind |-> "raise"]
    /\ session_state' = OnException(session_state)
    /\ api_returns(PyNone)
    /\ UNCHANGED <<session_state0, api_fn, api_endpoint, api_method, api_headers,
                   ver_vars, vd_vars, tgz_vars, more_vars>>

\* client/lib/utils.py:119-135, 140: the server answers
api_call_response ==
    /\ api_pc = "start"
    /\ HasToken(get_user_info(session_state))
    /\ api_method \in {"POST", "GET"}
    /\ http_requests' = Append(http_requests,
            HttpRequest(api_method, api_endpoint, api_headers,
                        get_user_info(session_state)))
    /\ \E response \in Responses :
          /\ http_reply' = response
          /\ session_state' = ResponseOutcome(session_state, response).session
          /\ api_returns(ResponseOutcome(session_state, response).value)
    /\ UNCHANGED <<session_state0, api_fn, api_endpoint, api_method, api_headers,
                   ver_vars, vd_vars, tgz_vars, more_vars>>

\* client/lib/utils.py:143-234: the wrapper, once call_api has returned
fn_finish ==
    /\ api_pc = "called"
    /\ fn_result' = WrapperOutcome(api_fn, api_result.value)
    /\ api_pc' = "done"
    /\ UNCHANGED <<session_state, session_state0, api_fn, api_endpoint, api_method,
                   api_headers, http_requests, http_reply, api_result, ver_vars,
                   vd_vars, tgz_vars, more_vars>>

(***************************************************************************)
(* validate_yaml_format (utils.py:35-61).  A dict is the set of its keys:  *)
(* the function looks at nothing else.                                     *)
(***************************************************************************)
EndsWith(s, suffix) ==
    Len(suffix) <= Len(s) /\ SubSeq(s, Len(s) - Len(suffix) + 1, Len(s)) = suffix
T_action == <<"a", "c", "t", "i", "o", "n">>
T_daf == <<"d", "a", "f">>
T_agent == <<"a", "g", "e", "n", "t">>
\* utils.py:37-41: template_path after the two `if`s; "unbound" when neither
\* assigned it
TemplatePathAfter(type, path) ==
    IF type = T_daf \/ type = T_agent THEN "agent_info.yaml" ELSE path
TemplatePath(type) ==
    TemplatePathAfter(type,
        IF type = T_action \/ EndsWith(type, T_action) THEN "action_info.yaml"
        ELSE "unbound")

\* utils.py:55: set(info_data.keys()) != set(template_data.keys())
KeysDiffer(info, template) == info # template

\* utils.py:43-61, once template_path is bound
ValidateAgainst(info, exists, template) ==
    IF ~exists
    THEN [kind |-> "raise", error |-> "ValueError", what |-> "template not found"]
    ELSE IF KeysDiffer(info, template)
    THEN [kind |-> "raise", error |-> "ValueError", what |-> "validation failed",
          missing_keys |-> template \ info, extra_keys |-> info \ template]
    ELSE [kind |-> "return", value |-> PyNone]
\* utils.py:35-61
validate_yaml_format(info, type, exists, template) ==
    IF TemplatePath(type) = "unbound"
    THEN [kind |-> "raise", error |-> "UnboundLocalError"]
    ELSE ValidateAgainst(info, exists, template)

\* the inputs: the keys of the tests and one more, the package types
YamlKeys == {"name", "version", "author", "extra"}
YamlTypes ==
    { T_action, <<"i", "n", "t", "e", "r", "a", "c", "t", "_">> \o T_action,
      T_daf, T_agent, <<"p", "l", "u", "g", "i", "n">> }

YfInit ==
    /\ info_data \in SUBSET YamlKeys
    /\ yf_type \in YamlTypes
    /\ template_exists \in BOOLEAN
    /\ template_data \in SUBSET YamlKeys
    /\ yf_pc = "start"
    /\ yf_result = NoResult

YfIdle ==
    /\ info_data = {}
    /\ yf_type = <<>>
    /\ template_exists = FALSE
    /\ template_data = {}
    /\ yf_pc = "idle"
    /\ yf_result = NoResult

CallValidateYamlFormat ==
    /\ yf_pc = "start"
    /\ yf_result' = validate_yaml_format(info_data, yf_type, template_exists,
                                         template_data)
    /\ yf_pc' = "done"
    /\ UNCHANGED <<info_data, yf_type, template_exists, template_data, not_yf>>

(***************************************************************************)
(* validate_package_name (utils.py:64-77).                                 *)
(***************************************************************************)
\* the position of the first "/" of a string, 0 when it holds none
RECURSIVE FirstSlashFrom(_, _)
FirstSlashFrom(s, i) ==
    IF i > Len(s) THEN 0
    ELSE IF s[i] = "/" THEN i
    ELSE FirstSlashFrom(s, i + 1)
FirstSlash(s) == FirstSlashFrom(s, 1)
\* a variant of NamespaceOf that splits at the last "/"
Namespace_LastSlash(name, i) ==
    SubSeq(name, 1, (CHOOSE k \in 1..Len(name) :
                        name[k] = "/" /\ \A j \in (k + 1)..Len(name) : name[j] # "/") - 1)
\* name.split("/", 1)[0]
NamespaceOf(name, i) == SubSeq(name, 1, i - 1)

\* utils.py:72: load_token().get("namespaces", {}).get("groups", [])
TokenGroups(token) ==
    DictGet(DictGet(token, "namespaces", PyDict(<<>>)), "groups", PyList(<<>>))
\* `namespace not in namespaces`
InList(v, list) == \E k \in DOMAIN list.items : list.items[k] = v

\* utils.py:71-77, once the name is known to hold a "/" at position i
CheckNamespace(name, i, token) ==
    IF ~InList(PyStr(NamespaceOf(name, i)), TokenGroups(token))
    THEN [kind |-> "raise", error |-> "ValueError", what |-> "namespace not accessible"]
    ELSE [kind |-> "return", value |-> PyNone]
\* utils.py:64-77
PackageNameFrom(name, i, token) ==
    IF i = 0
    THEN [kind |-> "raise", error |-> "ValueError", what |-> "no namespace"]
    ELSE CheckNamespace(name, i, token)
validate_package_name(name, token) == PackageNameFrom(name, FirstSlash(name), token)

\* the inputs: names with and without a namespace, with further slashes, and
\* the tokens of users with no, one and two groups
N_ns == <<"n", "s">>
N_ns2 == <<"n", "s", "2">>
N_other == <<"o", "t", "h", "e", "r">>
NameParts == {<<>>, <<"a">>, <<"p", "a", "c", "k">>, <<"s", "u", "b", "/", "p", "a", "c", "k">>, <<"/">>}
PackageNames ==
    {ns \o <<"/">> \o rest : ns \in {<<>>, N_ns, N_ns2, N_other}, rest \in NameParts}
    \cup {<<>>, N_ns, <<"m", "y", "a", "c", "t", "i", "o", "n">>}
GroupLists ==
    { <<>>, <<PyStr(N_ns)>>, <<PyStr(N_ns), PyStr(N_ns2)>>, <<PyStr(N_ns2)>>,
      <<PyStr(N_other), PyStr(N_ns)>> }
Tokens ==
    {PyDict(<< <<"namespaces", PyDict(<< <<"groups", PyList(g)>> >>)>> >>) : g \in GroupLists}
    \cup { PyDict(<<>>), PyDict(<< <<"namespaces", PyDict(<<>>)>> >>) }

PnInit ==
    /\ pn_name \in PackageNames
    /\ pn_token \in Tokens
    /\ pn_pc = "start"
    /\ pn_result = NoResult

PnIdle ==
    /\ pn_name = <<>>
    /\ pn_token = PyDict(<<>>)
    /\ pn_pc = "idle"
    /\ pn_result = NoResult

CallValidatePackageName ==
    /\ pn_pc = "start"
    /\ pn_result' = validate_package_name(pn_name, pn_token)
    /\ pn_pc' = "done"
    /\ UNCHANGED <<pn_name, pn_token, not_pn>>

(***************************************************************************)
(* app_controls (client/lib/widgets.py:51-133).  The YAML modelled is the  *)
(* subset the text areas of the model hold: block sequences ("- a"), block  *)
(* mappings ("k: v"), the empty flow collections [] and {}, plain scalars   *)
(* (words, decimal numbers, null), the empty text, and a flow collection   *)
(* left open, which is a syntax error.                                     *)
(***************************************************************************)
PyInt(n) == [t |-> "int", n |-> n]
NL == "\n"
NonEmpty(l) == l # <<>>
\* the lines of a text that are not empty
YamlLines(text) == SelectSeq(Split(text, NL), NonEmpty)
Holds(l, c) == \E i \in 1..Len(l) : l[i] = c
\* a flow collection that is opened and not closed on its line
FlowOpen(l) ==
    \/ Holds(l, "[") /\ ~Holds(l, "]")
    \/ Holds(l, "{") /\ ~Holds(l, "}")
IsItem(l) == StartsWith(l, <<"-", " ">>)
\* the position of the ":" that ends the key of a mapping line, 0 if none
RECURSIVE KeyEndFrom(_, _)
KeyEndFrom(l, i) ==
    IF i > Len(l) THEN 0
    ELSE IF l[i] = ":" /\ (i = Len(l) \/ l[i + 1] = " ") THEN i
    ELSE KeyEndFrom(l, i + 1)
IsEntry(l) == ~IsItem(l) /\ KeyEndFrom(l, 1) > 1
\* a plain scalar
YamlScalar(s) ==
    IF Strip(s) = <<>> \/ Strip(s) = <<"n", "u", "l", "l">> THEN PyNone
    ELSE IF AllDigits(Strip(s)) THEN PyInt(ParseNat(Strip(s)))
    ELSE PyStr(Strip(s))
YamlEntry(l, k) == <<SubSeq(l, 1, k - 1), YamlScalar(DropFirst(l, k))>>
YAMLError == [ok |-> FALSE]
Loaded(v) == [ok |-> TRUE, value |-> v]
\* yaml.safe_load, on the lines of the text
YamlLoadLines(lines) ==
    IF lines = <<>> THEN Loaded(PyNone)
    ELSE IF \E i \in DOMAIN lines : FlowOpen(lines[i]) THEN YAMLError
    ELSE IF lines = << <<"[", "]">> >> THEN Loaded(PyList(<<>>))
    ELSE IF lines = << <<"{", "}">> >> THEN Loaded(PyDict(<<>>))
    ELSE IF \A i \in DOMAIN lines : IsItem(lines[i])
    THEN Loaded(PyList([i \in DOMAIN lines |-> YamlScalar(DropFirst(lines[i], 2))]))
    ELSE IF \A i \in DOMAIN lines : IsEntry(lines[i])
    THEN Loaded(PyDict([i \in DOMAIN lines |->
                           YamlEntry(lines[i], KeyEndFrom(lines[i], 1))]))
    ELSE IF Len(lines) = 1 /\ ~IsItem(lines[1]) THEN Loaded(YamlScalar(lines[1]))
    ELSE YAMLError
YamlLoad(text) == YamlLoadLines(YamlLines(text))

\* yaml.dump of a scalar inside a collection, and of a list or dict of scalars
ScalarText(v) ==
    CASE v.t = "str" -> v.s
      [] v.t = "int" -> IntToStr(v.n)
      [] v.t = "None" -> <<"n", "u", "l", "l">>
RECURSIVE DumpItems(_)
DumpItems(items) ==
    IF items = <<>> THEN <<>>
    ELSE <<"-", " ">> \o ScalarText(Head(items)) \o <<NL>> \o DumpItems(Tail(items))
RECURSIVE DumpEntries(_)
DumpEntries(items) ==
    IF items = <<>> THEN <<>>
    ELSE Head(items)[1] \o <<":", " ">> \o ScalarText(Head(items)[2]) \o <<NL>>
         \o DumpEntries(Tail(items))
YamlDump(v) ==
    IF v.t = "list"
    THEN IF v.items = <<>> THEN <<"[", "]", NL>> ELSE DumpItems(v.items)
    ELSE IF v.items = <<>> THEN <<"{", "}", NL>> ELSE DumpEntries(v.items)

\* widgets.py:121-126: the keys app_controls renders, in the order of the model
SkippedKeys == {"id", "version", "label", "description", "enabled", "_package"}
IsRendered(entry) == entry[1] \notin SkippedKeys
RECURSIVE KeysOf(_)
KeysOf(items) == IF items = <<>> THEN <<>> ELSE <<Head(items)[1]>> \o KeysOf(Tail(items))
KeysToIterate(model) == KeysOf(SelectSeq(model.items, IsRendered))

\* a variant of ListFieldValue that stores whatever the YAML gave
ListFieldValue_AnyValue(old, loaded) ==
    IF loaded.ok THEN [error |-> FALSE, value |-> loaded.value]
    ELSE [error |-> TRUE, value |-> old]
\* widgets.py:90-97: the value of a list field after the text was loaded, and
\* whether st.error was called
ListFieldValue(old, loaded) ==
    IF loaded.ok /\ loaded.value.t = "list"
    THEN [error |-> FALSE, value |-> loaded.value]
    ELSE [error |-> TRUE, value |-> old]
\* widgets.py:112-118: the same for a dict field
DictFieldValue(old, loaded) ==
    IF loaded.ok
    THEN [error |-> FALSE,
          value |-> IF Truthy(loaded.value) THEN loaded.value ELSE PyDict(<<>>)]
    ELSE [error |-> TRUE, value |-> old]


\* what is typed into a text area (test_widgets.py:164-190, 276-319, and the
\* texts whose value is empty)
T_empty == <<>>
T_words == <<"n", "o", "t", " ", "a", " ", "l", "i", "s", "t">>
T_open == <<"i", "n", "v", "a", "l", "i", "d", "_", "y", "a", "m", "l", ":", " ", "[">>
T_items == <<"-", " ", "x", "\n", "-", " ", "y", "\n">>
T_flow_list == <<"[", "]">>
T_entry == <<"k", ":", " ", "w", "\n">>
T_flow_dict == <<"{", "}">>
T_zero == <<"0">>
T_mixed == <<"-", " ", "x", "\n", "k", ":", " ", "w", "\n">>
EditedTexts ==
    {T_empty, T_words, T_open, T_items, T_flow_list, T_entry, T_flow_dict, T_zero, T_mixed}
\* the text area shows yaml.dump(value); the user leaves it or replaces it
AreaTexts(value) == {YamlDump(value)} \cup EditedTexts
PyBool(b) == [t |-> "bool", b |-> b]
S_a == <<"a">>
S_b == <<"b">>
S_hi == <<"h", "i">>
S_k == <<"k">>
S_v == <<"v">>
\* the fields a model is made of
FieldChoices ==
    { <<"id", PyStr(S_a)>>,
      <<"api_key", PyStr(S_k)>>,
      <<"list_field", PyList(<<PyStr(S_a), PyStr(S_b)>>)>>,
      <<"limits", PyList(<<>>)>>,
      <<"config", PyDict(<< <<S_k, PyStr(S_v)>> >>)>>,
      <<"retries", PyInt(1)>>,
      <<"debug", PyBool(TRUE)>>,
      <<"prompt", PyStr(S_hi)>>,
      <<"note", PyNone>> }
DistinctKeys(items) ==
    \A i, j \in DOMAIN items : i # j => items[i][1] # items[j][1]
Models ==
    { PyDict(items) : items \in
        { f \in UNION { [1..n -> FieldChoices] : n \in 0..MaxFields } : DistinctKeys(f) } }
TextInputs(value) == {value, PyStr(S_hi), PyStr(<<>>)}
NumberInputs == {PyInt(n) : n \in 0..1}

AcInit ==
    /\ ac_model \in Models
    /\ ac_model0 = ac_model
    /\ ac_keys = <<>>
    /\ ac_i = 1
    /\ ac_pc = "idle"
    /\ ac_runs = 0
    /\ ac_entered = <<>>
    /\ ac_errors = <<>>
    /\ ac_writes = <<>>
AcIdle ==
    /\ ac_model = PyDict(<<>>)
    /\ ac_model0 = PyDict(<<>>)
    /\ ac_keys = <<>>
    /\ ac_i = 1
    /\ ac_pc = "off"
    /\ ac_runs = 0
    /\ ac_entered = <<>>
    /\ ac_errors = <<>>
    /\ ac_writes = <<>>

\* widgets.py:52-55, 125-129: a run of the page starts
ac_begin ==
    /\ ac_pc = "idle"
    /\ ac_runs < MaxRuns
    /\ ac_runs' = ac_runs + 1
    /\ ac_keys' = KeysToIterate(ac_model)
    /\ ac_i' = 1
    /\ ac_pc' = "loop"
    /\ ac_entered' = <<>>
    /\ ac_errors' = <<>>
    /\ ac_writes' = <<>>
    /\ UNCHANGED <<ac_model, ac_model0, not_ac>>
\* widgets.py:131-132: the loop is at a key, and render_fields is called with
\* the value the model holds for it
AtField == ac_pc = "loop" /\ ac_i <= Len(ac_keys)
ItemKey == ac_keys[ac_i]
ItemValue == DictGet(ac_model, ItemKey, Absent)
Entered(text) == [key |-> ItemKey, old |-> ItemValue, text |-> text]
NoText == <<"<", "n", "o", "n", "e", ">">>
\* the field is given the value a widget returned
StoreWidgetValue(v) ==
    /\ ac_model' = DictSet(ac_model, ItemKey, v)
    /\ ac_entered' = Append(ac_entered, Entered(NoText))
    /\ ac_i' = ac_i + 1
    /\ UNCHANGED <<ac_model0, ac_keys, ac_pc, ac_runs, ac_errors, ac_writes, not_ac>>
\* the field is given the outcome of loading the text of its text area
StoreLoaded(text, outcome) ==
    /\ ac_model' = DictSet(ac_model, ItemKey, outcome.value)
    /\ ac_errors' = IF outcome.error THEN Append(ac_errors, ItemKey) ELSE ac_errors
    /\ ac_entered' = Append(ac_entered, Entered(text))
    /\ ac_i' = ac_i + 1
    /\ UNCHANGED <<ac_model0, ac_keys, ac_pc, ac_runs, ac_writes, not_ac>>
\* widgets.py:66-69
ac_render_api_key ==
    /\ AtField
    /\ ItemKey = "api_key"
    /\ \E v \in TextInputs(ItemValue) : StoreWidgetValue(v)
\* widgets.py:71-74 (and 76-79, the same with a float)
ac_render_number ==
    /\ AtField
    /\ ItemKey # "api_key"
    /\ ItemValue.t = "int"
    /\ \E v \in NumberInputs \cup {ItemValue} : StoreWidgetValue(v)
\* widgets.py:81-84
ac_render_checkbox ==
    /\ AtField
    /\ ItemKey # "api_key"
    /\ ItemValue.t = "bool"
    /\ \E b \in BOOLEAN : StoreWidgetValue(PyBool(b))
\* widgets.py:86-97
ac_render_list ==
    /\ AtField
    /\ ItemKey # "api_key"
    /\ ItemValue.t = "list"
    /\ \E text \in AreaTexts(ItemValue) :
          StoreLoaded(text, ListFieldValue(ItemValue, YamlLoad(text)))
\* widgets.py:99-107
ac_render_str ==
    /\ AtField
    /\ ItemKey # "api_key"
    /\ ItemValue.t = "str"
    /\ \E v \in TextInputs(ItemValue) : StoreWidgetValue(v)
\* widgets.py:109-119
ac_render_dict ==
    /\ AtField
    /\ ItemKey # "api_key"
    /\ ItemValue.t = "dict"
    /\ \E text \in AreaTexts(ItemValue) :
          StoreLoaded(text, DictFieldValue(ItemValue, YamlLoad(text)))
\* widgets.py:121-122
ac_render_unsupported ==
    /\ AtField
    /\ ItemKey # "api_key"
    /\ ItemValue.t \notin {"int", "bool", "list", "str", "dict"}
    /\ ac_writes' = Append(ac_writes, ItemKey)
    /\ ac_entered' = Append(ac_entered, Entered(NoText))
    /\ ac_i' = ac_i + 1
    /\ UNCHANGED <<ac_model, ac_model0, ac_keys, ac_pc, ac_runs, ac_errors, not_ac>>
\* the loop is over and app_controls returns
ac_return ==
    /\ ac_pc = "loop"
    /\ ac_i > Len(ac_keys)
    /\ ac_pc' = "idle"
    /\ UNCHANGED <<ac_model, ac_model0, ac_keys, ac_i, ac_runs, ac_entered,
                   ac_errors, ac_writes, not_ac>>

(***************************************************************************)
(* dynamic_form (client/lib/widgets.py:154-250), with one text field per   *)
(* row: a row is [id, fields], `fields` being the value of that field.     *)
(***************************************************************************)
Row(id, fields) == [id |-> id, fields |-> fields]
\* widgets.py:172-183: the rows a first call puts in the session state
RECURSIVE InitialRowsFrom(_, _)
InitialRowsFrom(data, idx) ==
    IF data = <<>> THEN <<>>
    ELSE <<Row(idx, Head(data))>> \o InitialRowsFrom(Tail(data), idx + 1)
InitialRows(initial_data) ==
    IF initial_data # PyNone
    THEN InitialRowsFrom(initial_data.items, 0)
    ELSE <<Row(0, <<>>)>>
\* max(ids, default=-1)
RECURSIVE MaxId(_)
MaxId(rows) ==
    IF rows = <<>> THEN -1
    ELSE IF Head(rows).id > MaxId(Tail(rows)) THEN Head(rows).id ELSE MaxId(Tail(rows))
\* a variant of NewRowId that numbers the new row by the count of rows
NewRowId_Count(rows) == Len(rows)
\* widgets.py:187-189
NewRowId(rows) == MaxId(rows) + 1
\* widgets.py:198-200
RECURSIVE WithoutId(_, _)
WithoutId(rows, id_to_remove) ==
    IF rows = <<>> THEN <<>>
    ELSE IF Head(rows).id # id_to_remove
         THEN <<Head(rows)>> \o WithoutId(Tail(rows), id_to_remove)
         ELSE WithoutId(Tail(rows), id_to_remove)

FieldTexts == {<<>>, S_a}
InitialData ==
    {PyNone} \cup {PyList(d) : d \in UNION {[1..n -> FieldTexts] : n \in 0..MaxRows}}
NoStep == [op |-> "none", id |-> -1, before |-> <<>>]
Step(op, id, before) == [op |-> op, id |-> id, before |-> before]
DfInit ==
    /\ df_rows = Absent
    /\ df_initial \in InitialData
    /\ df_calls = 0
    /\ df_last = NoStep
DfIdle ==
    /\ df_rows = Absent
    /\ df_initial = PyNone
    /\ df_calls = MaxCallbacks
    /\ df_last = [op |-> "off", id |-> -1, before |-> <<>>]

\* widgets.py:171-183: the first call, session_key not in st.session_state
df_first_call ==
    /\ df_last.op = "none"
    /\ df_rows.t = "absent"
    /\ df_rows' = PyList(InitialRows(df_initial))
    /\ df_last' = Step("init", -1, <<>>)
    /\ UNCHANGED <<df_initial, df_calls, not_df>>
\* widgets.py:202-215: a later call renders the rows, and a text typed into the
\* field of a row is stored in the row
df_render ==
    /\ df_rows.t = "list"
    /\ \E i \in DOMAIN df_rows.items, text \in FieldTexts :
          /\ df_rows.items[i].fields # text
          /\ df_rows' = PyList([df_rows.items EXCEPT ![i].fields = text])
    /\ df_last' = Step("render", -1, df_rows.items)
    /\ UNCHANGED <<df_initial, df_calls, not_df>>
\* widgets.py:185-194, the on_click of "Add Row"
add_row ==
    /\ df_rows.t = "list"
    /\ df_calls < MaxCallbacks
    /\ df_rows' = PyList(Append(df_rows.items, Row(NewRowId(df_rows.items), <<>>)))
    /\ df_calls' = df_calls + 1
    /\ df_last' = Step("add_row", -1, df_rows.items)
    /\ UNCHANGED <<df_initial, not_df>>
\* widgets.py:196-200, 236-240: the on_click of the "Remove" of a rendered row
remove_row ==
    /\ df_rows.t = "list"
    /\ df_calls < MaxCallbacks
    /\ \E i \in DOMAIN df_rows.items :
          /\ df_rows' = PyList(WithoutId(df_rows.items, df_rows.items[i].id))
          /\ df_last' = Step("remove_row", df_rows.items[i].id, df_rows.items)
    /\ df_calls' = df_calls + 1
    /\ UNCHANGED <<df_initial, not_df>>

(***************************************************************************)
(* _publish_common (commands/publish.py:97-162).  A path is a directory    *)
(* and a file name in it.                                                  *)
(***************************************************************************)
Returns == [kind |-> "return", value |-> PyNone]
Raises(error) == [kind |-> "raise", error |-> error]
\* publish.py:100: load_token().get("token")
TokenOf(token_file) == DictGet(token_file, "token", PyNone)
\* publish.py:117: validate_yaml_format(info_data, type=publish_type); info.yaml
\* that is empty loads as None, which has no keys()
PubFormatResult(info, type, template) ==
    IF info = PyNone THEN Raises("AttributeError")
    ELSE validate_yaml_format(info.keys, type, TRUE, template)
\* publish.py:124-125: validate_package_name(info_data["package"].get("name"));
\* a package without a name gives None, and `"/" not in None` is a TypeError
PubNameResult(info, token_file) ==
    IF info.name = PyNone THEN Raises("TypeError")
    ELSE validate_package_name(info.name.s, token_file)
\* publish.py:139: package_name.split("/", 1)
PubNamespace(name) == NamespaceOf(name, FirstSlash(name))
PubName(name) == DropFirst(name, FirstSlash(name))
S_targz == <<".", "t", "a", "r", ".", "g", "z">>
D_cwd == <<".">>
D_tmp == <<"/", "t", "m", "p">>
D_out == <<"o", "u", "t">>
D_pkg == <<"p", "k", "g">>
\* publish.py:141-146
TgzDir(file_only, output) ==
    IF file_only /\ ~Truthy(output) THEN D_cwd
    ELSE IF Truthy(output) THEN output.s
    ELSE D_tmp
TgzFilename(file_only, output, name) ==
    [dir |-> TgzDir(file_only, output),
     file |-> PubNamespace(name) \o <<"_">> \o PubName(name) \o S_targz]
\* publish.py:116-137: where the command goes after a validation: on when it
\* returned, to its end when it raised
AfterGate(result, next) == IF result.kind = "return" THEN next ELSE "done"
\* publish.py:119-121: ValueError is caught and the command returns; any other
\* exception leaves the command
ExitAfter(result) ==
    IF result.kind = "return" THEN "none"
    ELSE IF result.error = "ValueError" THEN "return"
    ELSE "raise"
\* a variant of AfterCompress that uploads whatever the flag
AfterCompress_Uploads(file_only) == "upload"
\* publish.py:151: `if not file_only`
AfterCompress(file_only) == IF file_only THEN "done" ELSE "upload"
Call(what, ok) == [call |-> what, ok |-> ok]

N_ns_pack == N_ns \o <<"/", "p", "k">>
PubNames ==
    { PyNone, PyStr(N_ns_pack), PyStr(N_other \o <<"/", "p", "k">>), PyStr(<<"p", "k">>),
      PyStr(N_ns \o <<"/", "s", "/", "p", "k">>) }
PubKeySets == { {"package"}, {"package", "extra"}, {} }
PubInfos == {PyNone} \cup {[keys |-> k, name |-> n] : k \in PubKeySets, n \in PubNames}
PubTokenFiles ==
    { PyDict(<<>>),
      PyDict(<< <<"token", PyStr(<<>>)>>,
                <<"namespaces", PyDict(<< <<"groups", PyList(<<PyStr(N_ns)>>)>> >>)>> >>),
      PyDict(<< <<"token", PyStr(S_tok)>>,
                <<"namespaces", PyDict(<< <<"groups", PyList(<<PyStr(N_ns)>>)>> >>)>> >>),
      PyDict(<< <<"token", PyStr(S_tok)>> >>) }
PubInit ==
    /\ pub_token_file \in PubTokenFiles
    /\ pub_has_info \in BOOLEAN
    /\ pub_info \in PubInfos
    /\ pub_template = {"package"}
    /\ pub_deps \in {Returns, Raises("ValueError")}
    /\ pub_path \in {D_cwd, D_pkg}
    /\ pub_file_only \in BOOLEAN
    /\ pub_output \in {PyNone, PyStr(D_out)}
    /\ pub_type \in {T_action, T_agent}
    /\ pub_pc = "token"
    /\ pub_log = <<>>
    /\ pub_archive = PyNone
    /\ pub_uploads = <<>>
    /\ pub_exit = "none"
PubIdle ==
    /\ pub_token_file = PyDict(<<>>)
    /\ pub_has_info = FALSE
    /\ pub_info = PyNone
    /\ pub_template = {}
    /\ pub_deps = Returns
    /\ pub_path = D_cwd
    /\ pub_file_only = FALSE
    /\ pub_output = PyNone
    /\ pub_type = T_action
    /\ pub_pc = "off"
    /\ pub_log = <<>>
    /\ pub_archive = PyNone
    /\ pub_uploads = <<>>
    /\ pub_exit = "none"

pub_inputs ==
    <<pub_token_file, pub_has_info, pub_info, pub_template, pub_deps, pub_path,
      pub_file_only, pub_output, pub_type>>
\* a step that ran `what`, which ended as `result`
PubGate(what, result, next) ==
    /\ pub_log' = Append(pub_log, Call(what, result.kind = "return"))
    /\ pub_pc' = AfterGate(result, next)
    /\ pub_exit' = ExitAfter(result)
    /\ UNCHANGED <<pub_inputs, pub_archive, pub_uploads, not_pub>>
\* publish.py:100-103
pub_load_token ==
    /\ pub_pc = "token"
    /\ PubGate("load_token",
               IF Truthy(TokenOf(pub_token_file)) THEN Returns ELSE Raises("ValueError"),
               "info")
\* publish.py:105-110
pub_find_info ==
    /\ pub_pc = "info"
    /\ PubGate("exists", IF pub_has_info THEN Returns ELSE Raises("ValueError"), "format")
\* publish.py:114-121
pub_validate_format ==
    /\ pub_pc = "format"
    /\ PubGate("validate_yaml_format",
               PubFormatResult(pub_info, pub_type, pub_template), "name")
\* publish.py:123-131
pub_validate_name ==
    /\ pub_pc = "name"
    /\ PubGate("validate_package_name", PubNameResult(pub_info, pub_token_file), "deps")
\* publish.py:133-137
pub_validate_deps ==
    /\ pub_pc = "deps"
    /\ PubGate("validate_dependencies", pub_deps, "compress")
\* publish.py:139-149: the archive is written
pub_compress ==
    /\ pub_pc = "compress"
    /\ pub_archive' = TgzFilename(pub_file_only, pub_output, pub_info.name.s)
    /\ pub_log' = Append(pub_log, Call("compress_package_to_tgz", TRUE))
    /\ pub_pc' = AfterCompress(pub_file_only)
    /\ pub_exit' = IF pub_file_only THEN "return" ELSE "none"
    /\ UNCHANGED <<pub_inputs, pub_uploads, not_pub>>
\* publish.py:147: compress_package_to_tgz raises, and so does the command
pub_compress_fails ==
    /\ pub_pc = "compress"
    /\ pub_log' = Append(pub_log, Call("compress_package_to_tgz", FALSE))
    /\ pub_pc' = "done"
    /\ pub_exit' = "raise"
    /\ UNCHANGED <<pub_inputs, pub_archive, pub_uploads, not_pub>>
\* publish.py:151-162
pub_upload ==
    /\ pub_pc = "upload"
    /\ pub_uploads' = Append(pub_uploads,
                             [file |-> pub_archive, token |-> TokenOf(pub_token_file),
                              namespace |-> PubNamespace(pub_info.name.s)])
    /\ \E ok \in BOOLEAN :
          pub_log' = Append(pub_log, Call("RegistryAPI.publish_action", ok))
    /\ pub_pc' = "done"
    /\ pub_exit' = "return"
    /\ UNCHANGED <<pub_inputs, pub_archive, not_pub>>

(***************************************************************************)
(* The endpoints of the studio (commands/studio.py:73-196, 205-232).       *)
(* HTTPBearer and decrypt are library code: HTTPBearer answers a request   *)
(* without bearer credentials itself, before the endpoint is called, with  *)
(* 403 or 401 according to the FastAPI installed; decrypt gives the        *)
(* payload of a token it can decode and None for any other.                *)
(***************************************************************************)
S_good == <<"g", "o", "o", "d">>
S_bad == <<"b", "a", "d">>
NoAuthorization == [scheme |-> "none", credentials |-> <<>>]
Authorization(scheme, credentials) == [scheme |-> scheme, credentials |-> credentials]
\* HTTPBearer.__call__: is there a bearer token in the header
HasBearerCredentials(auth) == auth.scheme = "bearer" /\ auth.credentials # <<>>
\* jac_cloud.jaseci.security.decrypt
Decrypt(token) ==
    IF token = S_good THEN PyDict(<< <<"id", PyStr(S_a)>> >>) ELSE PyNone
\* a variant of TokenRejected that accepts any token that is not empty
TokenRejected_OnlyEmpty(token) == token = <<>>
\* studio.py:80: `not token or not decrypt(token)`
TokenRejected(token) == token = <<>> \/ ~Truthy(Decrypt(token))
\* studio.py:84-141: the collections an endpoint reads
ReadsOf(endpoint) ==
    CASE endpoint = "graph" -> <<"node", "edge">>
      [] endpoint = "users" -> <<"user">>
      [] endpoint = "node" -> <<"edge", "node">>
HttpError(status, detail) == [status |-> status, detail |-> detail, data |-> <<>>]
HttpData(endpoint) == [status |-> 200, detail |-> "", data |-> ReadsOf(endpoint)]
StudioEndpoints == {"graph", "users", "node"}
AuthorizationHeaders ==
    { NoAuthorization, Authorization("basic", S_good), Authorization("bearer", <<>>),
      Authorization("bearer", S_good), Authorization("bearer", S_bad) }
NoRequest == [endpoint |-> "none", auth |-> NoAuthorization]

StudioInit ==
    /\ require_auth \in BOOLEAN
    /\ studio_request = NoRequest
    /\ studio_pc = "idle"
    /\ studio_decrypts = <<>>
    /\ studio_reads = <<>>
    /\ studio_response = NoReply
    /\ studio_served = 0
StudioIdle ==
    /\ require_auth = FALSE
    /\ studio_request = NoRequest
    /\ studio_pc = "off"
    /\ studio_decrypts = <<>>
    /\ studio_reads = <<>>
    /\ studio_response = NoReply
    /\ studio_served = 0

\* studio.py:143-196, 224-226: a request reaches one of the three routes; the
\* guarded endpoints depend on `security`, the others do not
studio_receive ==
    /\ studio_pc = "idle"
    /\ studio_served < MaxRequests
    /\ \E e \in StudioEndpoints, a \in AuthorizationHeaders :
          studio_request' = [endpoint |-> e, auth |-> a]
    /\ studio_pc' = IF require_auth THEN "depends" ELSE "data"
    /\ studio_decrypts' = <<>>
    /\ studio_reads' = <<>>
    /\ studio_response' = NoReply
    /\ UNCHANGED <<require_auth, studio_served, not_studio>>
\* studio.py:169, 178, 188: Depends(security) finds no bearer credentials
studio_bearer_rejects ==
    /\ studio_pc = "depends"
    /\ ~HasBearerCredentials(studio_request.auth)
    /\ \E status \in {401, 403} :
          studio_response' = HttpError(status, "Not authenticated")
    /\ studio_pc' = "idle"
    /\ studio_served' = studio_served + 1
    /\ UNCHANGED <<require_auth, studio_request, studio_decrypts, studio_reads,
                   not_studio>>
\* Depends(security) hands the credentials to the endpoint
studio_bearer_passes ==
    /\ studio_pc = "depends"
    /\ HasBearerCredentials(studio_request.auth)
    /\ studio_pc' = "validate"
    /\ UNCHANGED <<require_auth, studio_request, studio_decrypts, studio_reads,
                   studio_response, studio_served, not_studio>>
\* studio.py:77-81: validate_auth, the first statement of a guarded endpoint
studio_validate_auth ==
    /\ studio_pc = "validate"
    /\ studio_decrypts' =
          IF studio_request.auth.credentials = <<>> THEN studio_decrypts
          ELSE Append(studio_decrypts, studio_request.auth.credentials)
    /\ IF TokenRejected(studio_request.auth.credentials)
       THEN /\ studio_response' = HttpError(401, "Invalid token")
            /\ studio_pc' = "idle"
            /\ studio_served' = studio_served + 1
       ELSE /\ studio_pc' = "data"
            /\ UNCHANGED <<studio_response, studio_served>>
    /\ UNCHANGED <<require_auth, studio_request, studio_reads, not_studio>>
\* studio.py:83-141, 147-160: the data is read and returned
studio_read_data ==
    /\ studio_pc = "data"
    /\ studio_reads' = ReadsOf(studio_request.endpoint)
    /\ studio_response' = HttpData(studio_request.endpoint)
    /\ studio_pc' = "idle"
    /\ studio_served' = studio_served + 1
    /\ UNCHANGED <<require_auth, studio_request, studio_decrypts, not_studio>>

(***************************************************************************)
(* get_nodes_and_edges (commands/studio.py:19-71), called by               *)
(* get_node_connections (studio.py:123-141).  The _id of node k is the     *)
(* text of k, and an edge names its ends as "n:" followed by the _id.      *)
(***************************************************************************)
NodeId(k) == IntToStr(k)
NodeRef(k) == <<"n", ":">> \o NodeId(k)
Edge(id, s, t) == [id |-> id, source |-> NodeRef(s), target |-> NodeRef(t)]
\* x.split(":")[-1]
LastPart(x) == Split(x, ":")[Len(Split(x, ":"))]
\* studio.py:31-38: the filter of the query, {source: nid} or source ending in nid
SourceMatches(source, nid) == source = nid \/ EndsWith(source, nid)
\* the edges of a cursor, in the order of their ids
RECURSIVE InIdOrder(_)
InIdOrder(es) ==
    IF es = {} THEN <<>>
    ELSE LET first == CHOOSE e \in es : \A o \in es : e.id <= o.id
         IN <<first>> \o InIdOrder(es \ {first})
OutgoingEdges(db, nid) == InIdOrder({e \in db : SourceMatches(e.source, nid)})
\* a variant of AtDepth that stops one call later
AtDepth_Late(current_depth, depth) == current_depth > depth
\* studio.py:28: current_depth >= depth
AtDepth(current_depth, depth) == current_depth >= depth
\* a call: `queried` once the edges were found, `todo` the edges left to its loop
Frame(nid, current_depth) ==
    [nid |-> nid, current_depth |-> current_depth, queried |-> FALSE, todo |-> <<>>]
GneTop == gne_stack[Len(gne_stack)]
GnePop == SubSeq(gne_stack, 1, Len(gne_stack) - 1)
GneNext == [gne_stack EXCEPT ![Len(gne_stack)].todo = Tail(GneTop.todo)]

NodeNumbers == {1, 2, 3}
EdgeChoices == {Edge(3 * (s - 1) + t, s, t) : s \in NodeNumbers, t \in NodeNumbers}
GneInit ==
    /\ gne_edges_db \in {es \in SUBSET EdgeChoices : Cardinality(es) <= MaxEdges}
    /\ gne_nodes_db \in {{NodeId(k) : k \in NodeNumbers}, {NodeId(1), NodeId(2)}}
    /\ gne_node_id \in {NodeRef(1), NodeId(2)}
    /\ gne_depth \in -1..MaxDepth
    /\ gne_stack = <<>>
    /\ gne_nodes = <<>>
    /\ gne_edges = <<>>
    /\ gne_pc = "call"
GneIdle ==
    /\ gne_edges_db = {}
    /\ gne_nodes_db = {}
    /\ gne_node_id = <<>>
    /\ gne_depth = 0
    /\ gne_stack = <<>>
    /\ gne_nodes = <<>>
    /\ gne_edges = <<>>
    /\ gne_pc = "off"

gne_db == <<gne_edges_db, gne_nodes_db, gne_node_id, gne_depth>>
\* studio.py:123-139: get_node_connections calls get_nodes_and_edges at depth 0
gne_call ==
    /\ gne_pc = "call"
    /\ gne_stack' = <<Frame(LastPart(gne_node_id), 0)>>
    /\ gne_pc' = "run"
    /\ UNCHANGED <<gne_db, gne_nodes, gne_edges, not_gne>>
\* studio.py:28-29
gne_return_at_depth ==
    /\ gne_pc = "run" /\ gne_stack # <<>>
    /\ ~GneTop.queried
    /\ AtDepth(GneTop.current_depth, gne_depth)
    /\ gne_stack' = GnePop
    /\ UNCHANGED <<gne_db, gne_nodes, gne_edges, gne_pc, not_gne>>
\* studio.py:31-38
gne_find_edges ==
    /\ gne_pc = "run" /\ gne_stack # <<>>
    /\ ~GneTop.queried
    /\ ~AtDepth(GneTop.current_depth, gne_depth)
    /\ gne_stack' = [gne_stack EXCEPT
                        ![Len(gne_stack)].queried = TRUE,
                        ![Len(gne_stack)].todo = OutgoingEdges(gne_edges_db, GneTop.nid)]
    /\ UNCHANGED <<gne_db, gne_nodes, gne_edges, gne_pc, not_gne>>
GneInLoop ==
    /\ gne_pc = "run" /\ gne_stack # <<>>
    /\ GneTop.queried
    /\ GneTop.todo # <<>>
\* studio.py:40-71: the edge is collected, and so is the node it leads to,
\* from which the function calls itself one level deeper
gne_edge_to_node ==
    /\ GneInLoop
    /\ LastPart(Head(GneTop.todo).target) \in gne_nodes_db
    /\ gne_edges' = Append(gne_edges, Head(GneTop.todo))
    /\ gne_nodes' = Append(gne_nodes, LastPart(Head(GneTop.todo).target))
    /\ gne_stack' = Append(GneNext, Frame(LastPart(Head(GneTop.todo).target),
                                          GneTop.current_depth + 1))
    /\ UNCHANGED <<gne_db, gne_pc, not_gne>>
\* studio.py:40-54: the edge is collected, and no node has the _id of its target
gne_edge_to_nothing ==
    /\ GneInLoop
    /\ LastPart(Head(GneTop.todo).target) \notin gne_nodes_db
    /\ gne_edges' = Append(gne_edges, Head(GneTop.todo))
    /\ gne_stack' = GneNext
    /\ UNCHANGED <<gne_db, gne_nodes, gne_pc, not_gne>>
\* the loop over the edges is over
gne_return ==
    /\ gne_pc = "run" /\ gne_stack # <<>>
    /\ GneTop.queried
    /\ GneTop.todo = <<>>
    /\ gne_stack' = GnePop
    /\ UNCHANGED <<gne_db, gne_nodes, gne_edges, gne_pc, not_gne>>
\* studio.py:141: get_node_connections returns the two lists
gne_finish ==
    /\ gne_pc = "run"
    /\ gne_stack = <<>>
    /\ gne_pc' = "done"
    /\ UNCHANGED <<gne_db, gne_stack, gne_nodes, gne_edges, not_gne>>

(***************************************************************************)
(* `jvcli server initagents` (commands/server.py:123-169).                 *)
(***************************************************************************)
\* a variant of LoginFailed that takes any token other than None
LoginFailed_NoneOnly(token) == token = PyNone
\* server.py:138: `if not token`
LoginFailed(token) == ~Truthy(token)
\* server.py:151-158: the request to the init_agents walker
InitAgentsRequest(base_url, token) ==
    [url |-> base_url.s \o <<"/walker/init_agents">>,
     headers |-> PyDict(<< <<"Content-Type", PyStr(<<"application/json">>)>>,
                           <<"Accept", PyStr(<<"application/json">>)>>,
                           <<"Authorization", PyStr(Bearer \o token.s)>> >>),
     json |-> PyDict(<<>>)]
\* server.py:160-169: the exit status after a response; response.json() of a
\* body that is no JSON raises a RequestException
ExitAfterResponse(status, json_ok) == IF status = 200 /\ json_ok THEN 0 ELSE 1

IaInit ==
    /\ ia_running \in BOOLEAN
    /\ ia_token \in {PyNone, PyStr(<<>>), PyStr(S_tok), PyStr(S_good)}
    /\ ia_clean \in {"return", "exit"}
    /\ ia_base_url \in {PyNone, PyStr(<<JIVAS_BASE_URL>>), PyStr(<<"http://jivas:8000">>)}
    /\ ia_reply = NoReply
    /\ ia_pc = "check"
    /\ ia_log = <<>>
    /\ ia_requests = <<>>
    /\ ia_exit = -1
IaIdle ==
    /\ ia_running = FALSE
    /\ ia_token = PyNone
    /\ ia_clean = "return"
    /\ ia_base_url = PyNone
    /\ ia_reply = NoReply
    /\ ia_pc = "off"
    /\ ia_log = <<>>
    /\ ia_requests = <<>>
    /\ ia_exit = -1

\* a step that made a call: the command goes on, or ends with sys.exit(1)
IaStep(what, ok, next) ==
    /\ ia_log' = Append(ia_log, Call(what, ok))
    /\ ia_pc' = IF ok THEN next ELSE "ended"
    /\ ia_exit' = IF ok THEN -1 ELSE 1
    /\ UNCHANGED <<ia_running, ia_token, ia_clean, ia_base_url, ia_reply, ia_requests,
                   not_ia>>
\* server.py:132-135
ia_check_server ==
    /\ ia_pc = "check"
    /\ IaStep("is_server_running", ia_running, "login")
\* server.py:137-142
ia_login ==
    /\ ia_pc = "login"
    /\ IaStep("login_jivas", ~LoginFailed(ia_token), "clean")
\* server.py:144-147: clean.invoke(ctx) returns, or leaves the command
ia_run_clean ==
    /\ ia_pc = "clean"
    /\ IaStep("clean", ia_clean = "return", "post")
IaPost(reply, exit) ==
    /\ ia_requests' = Append(ia_requests, InitAgentsRequest(ia_base_url, ia_token))
    /\ ia_reply' = reply
    /\ ia_log' = Append(ia_log, Call("init_agents", exit = 0))
    /\ ia_pc' = "ended"
    /\ ia_exit' = exit
    /\ UNCHANGED <<ia_running, ia_token, ia_clean, ia_base_url, not_ia>>
\* server.py:151: JIVAS_BASE_URL is not set, os.environ[...] raises KeyError,
\* which nothing catches: the interpreter ends with status 1
ia_post_no_url ==
    /\ ia_pc = "post"
    /\ ia_base_url = PyNone
    /\ ia_pc' = "ended"
    /\ ia_exit' = 1
    /\ UNCHANGED <<ia_running, ia_token, ia_clean, ia_base_url, ia_reply, ia_log,
                   ia_requests, not_ia>>
\* server.py:150-158, 167-169: requests.post raises a RequestException
ia_post_raises ==
    /\ ia_pc = "post"
    /\ ia_base_url # PyNone
    /\ IaPost([kind |-> "exception", error |-> "RequestException"], 1)
\* server.py:150-166: requests.post gives a response
ia_post_response ==
    /\ ia_pc = "post"
    /\ ia_base_url # PyNone
    /\ \E status \in Statuses, json_ok \in BOOLEAN :
          IaPost([kind |-> "response", status |-> status, json_ok |-> json_ok],
                 ExitAfterResponse(status, json_ok))

\* the components modelled after the first four, not called
MoreIdle == YfIdle /\ PnIdle /\ AcIdle /\ DfIdle /\ PubIdle /\ StudioIdle
    /\ GneIdle /\ IaIdle

(***************************************************************************)
(* The specifications: one per component.                                  *)
(***************************************************************************)
InitVersion == VerInit /\ VdIdle /\ TgzIdle /\ ApiIdle /\ MoreIdle
NextVersion == CallIsVersionCompatible
SpecVersion == InitVersion /\ [][NextVersion]_vars

InitDeps == VerIdle /\ VdInit /\ TgzIdle /\ ApiIdle /\ MoreIdle
NextDeps == vd_begin \/ vd_check_jivas \/ vd_lookup \/ vd_finish
SpecDeps == InitDeps /\ [][NextDeps]_vars

InitArchive == VerIdle /\ VdIdle /\ TgzInit /\ ApiIdle /\ MoreIdle
NextArchive ==
    tgz_open \/ tgz_open_fails \/ tgz_walk \/ tgz_add \/ tgz_add_fails \/ tgz_return
SpecArchive == InitArchive /\ [][NextArchive]_vars

InitApi == VerIdle /\ VdIdle /\ TgzIdle /\ ApiInit /\ MoreIdle
NextApi ==
    api_call_no_token \/ api_call_unsupported \/ api_call_raises
    \/ api_call_response \/ fn_finish
SpecApi == InitApi /\ [][NextApi]_vars

BaseIdle == VerIdle /\ VdIdle /\ TgzIdle /\ ApiIdle

InitYaml == BaseIdle /\ YfInit /\ PnIdle /\ AcIdle /\ DfIdle /\ PubIdle
    /\ StudioIdle /\ GneIdle /\ IaIdle
NextYaml ==
    CallValidateYamlFormat
SpecYaml == InitYaml /\ [][NextYaml]_vars

InitName == BaseIdle /\ YfIdle /\ PnInit /\ AcIdle /\ DfIdle /\ PubIdle
    /\ StudioIdle /\ GneIdle /\ IaIdle
NextName ==
    CallValidatePackageName
SpecName == InitName /\ [][NextName]_vars

InitControls == BaseIdle /\ YfIdle /\ PnIdle /\ AcInit /\ DfIdle /\ PubIdle
    /\ StudioIdle /\ GneIdle /\ IaIdle
NextControls ==
    ac_begin \/ ac_render_api_key \/ ac_render_number \/ ac_render_checkbox
    \/ ac_render_list \/ ac_render_str \/ ac_render_dict \/ ac_render_unsupported
    \/ ac_return
SpecControls == InitControls /\ [][NextControls]_vars

InitForm == BaseIdle /\ YfIdle /\ PnIdle /\ AcIdle /\ DfInit /\ PubIdle
    /\ StudioIdle /\ GneIdle /\ IaIdle
NextForm ==
    df_first_call \/ df_render \/ add_row \/ remove_row
SpecForm == InitForm /\ [][NextForm]_vars

InitPublish == BaseIdle /\ YfIdle /\ PnIdle /\ AcIdle /\ DfIdle /\ PubInit
    /\ StudioIdle /\ GneIdle /\ IaIdle
NextPublish ==
    pub_load_token \/ pub_find_info \/ pub_validate_format \/ pub_validate_name
    \/ pub_validate_deps \/ pub_compress \/ pub_compress_fails \/ pub_upload
SpecPublish == InitPublish /\ [][NextPublish]_vars

InitStudio == BaseIdle /\ YfIdle /\ PnIdle /\ AcIdle /\ DfIdle /\ PubIdle
    /\ StudioInit /\ GneIdle /\ IaIdle
NextStudio ==
    studio_receive \/ studio_bearer_rejects \/ studio_bearer_passes
    \/ studio_validate_auth \/ studio_read_data
SpecStudio == InitStudio /\ [][NextStudio]_vars

InitGraph == BaseIdle /\ YfIdle /\ PnIdle /\ AcIdle /\ DfIdle /\ PubIdle
    /\ StudioIdle /\ GneInit /\ IaIdle
NextGraph ==
    gne_call \/ gne_return_at_depth \/ gne_find_edges \/ gne_edge_to_node
    \/ gne_edge_to_nothing \/ gne_return \/ gne_finish
SpecGraph == InitGraph /\ [][NextGraph]_vars
\* the same, every call in progress taking its next step
SpecGraphFair == SpecGraph /\ WF_vars(NextGraph)

InitInitAgents == BaseIdle /\ YfIdle /\ PnIdle /\ AcIdle /\ DfIdle /\ PubIdle
    /\ StudioIdle /\ GneIdle /\ IaInit
NextInitAgents ==
    ia_check_server \/ ia_login \/ ia_run_clean \/ ia_post_no_url \/ ia_post_raises
    \/ ia_post_response
SpecInitAgents == InitInitAgents /\ [][NextInitAgents]_vars

\* every component at once
Init ==
    InitVersion \/ InitDeps \/ InitArchive \/ InitApi \/ InitYaml \/ InitName
    \/ InitControls \/ InitForm \/ InitPublish \/ InitStudio \/ InitGraph
    \/ InitInitAgents
Next ==
    NextVersion \/ NextDeps \/ NextArchive \/ NextApi \/ NextYaml \/ NextName
    \/ NextControls \/ NextForm \/ NextPublish \/ NextStudio \/ NextGraph
    \/ NextInitAgents
Spec == Init /\ [][Next]_vars

(***************************************************************************)
(* Claims about is_version_compatible, checked under SpecVersion.          *)
(***************************************************************************)
VerDone == ver_pc = "done" /\ ver_result.kind = "return"

\* the order of version triples <<major, minor, patch>>
TripleLess(x, y) ==
    \/ x[1] < y[1]
    \/ x[1] = y[1] /\ x[2] < y[2]
    \/ x[1] = y[1] /\ x[2] = y[2] /\ x[3] < y[3]
TripleLessEq(x, y) == x = y \/ TripleLess(x, y)

\* a specifier that parses under no interpretation: not a bare version, not a
\* ~ or ^ followed by a version, not a set of at least one comparator clause
IsShorthand(s) ==
    /\ StartsWith(s, <<"~">>) \/ StartsWith(s, <<"^">>)
    /\ parse_version(PyStr(DropFirst(s, 1))).ok
IsComparatorSet(s) == SpecifierSet(s).ok /\ SpecifierSet(s).specs # {}
SpecifierUnparseable(x) ==
    \/ x.t # "str"
    \/ ~parse_version(x).ok /\ ~IsShorthand(x.s) /\ ~IsComparatorSet(x.s)

\* C1: is_version_compatible returns a boolean and never raises, and the
\* result is False when the version does not parse or the specifier parses
\* under no interpretation, the empty string and None included.
C1_FalseOnUnparseable ==
    ver_pc = "done" =>
        /\ ver_result.kind = "return"
        /\ ver_result.value \in BOOLEAN
        /\ (~parse_version(ver_in).ok \/ SpecifierUnparseable(spec_in))
              => ver_result.value = FALSE

\* the parsed components of two versions agree
C2_SameComponents(a, b) ==
    /\ major(a) = major(b)
    /\ minor(a) = minor(b)
    /\ micro(a) = micro(b)
    /\ a.pre = b.pre
\* C2: when the specifier parses as a bare version, the result is the
\* equality of the parsed components (major, minor, patch and pre-release
\* tag) of version and specifier, whatever a range would say.
C2_ExactMatch ==
    (VerDone /\ parse_version(spec_in).ok) =>
        ver_result.value =
            (/\ parse_version(ver_in).ok
             /\ C2_SameComponents(parse_version(ver_in), parse_version(spec_in)))
\* a pre-release version matched against itself as the specifier
C2_Witness ==
    /\ VerDone
    /\ ver_in = PyStr(S_alpha)
    /\ spec_in = PyStr(S_alpha)
    /\ ver_result.value = TRUE

\* C3: for every base M.N.P and release version v, v satisfies ~M.N.P
\* exactly when M.N.P <= v < M.(N+1).0.
C3_Tilde ==
    VerDone =>
        \A b \in BaseTriples :
            spec_in = PyStr(<<"~">> \o VerStr(b[1], b[2], b[3])) =>
            \A r \in ReleaseTriples :
            ver_in = PyStr(VerStr(r[1], r[2], r[3]))
            => ver_result.value =
                  (TripleLessEq(b, r) /\ TripleLess(r, <<b[1], b[2] + 1, 0>>))
\* 2.1.5 satisfies ~2.1.0
C3_Witness ==
    /\ VerDone
    /\ spec_in = PyStr(<<"~", "2", ".", "1", ".", "0">>)
    /\ ver_in = PyStr(<<"2", ".", "1", ".", "5">>)
    /\ ver_result.value = TRUE

\* the exclusive upper bound of ^M.N.P, as a triple
C4_UpperBound(b) ==
    IF b[1] > 0 THEN <<b[1] + 1, 0, 0>>
    ELSE IF b[2] > 0 THEN <<0, b[2] + 1, 0>>
    ELSE <<0, 0, b[3] + 1>>
\* C4: for every base M.N.P and release version v, v satisfies ^M.N.P
\* exactly when v >= M.N.P and v is below (M+1).0.0 when M > 0, below
\* 0.(N+1).0 when M = 0 and N > 0, below 0.0.(P+1) when M = 0 and N = 0.
C4_Caret ==
    VerDone =>
        \A b \in BaseTriples :
            spec_in = PyStr(<<"^">> \o VerStr(b[1], b[2], b[3])) =>
            \A r \in ReleaseTriples :
            ver_in = PyStr(VerStr(r[1], r[2], r[3]))
            => ver_result.value =
                  (TripleLessEq(b, r) /\ TripleLess(r, C4_UpperBound(b)))
\* 0.2.0 does not satisfy ^0.1.0
C4_Witness ==
    /\ VerDone
    /\ spec_in = PyStr(<<"^", "0", ".", "1", ".", "0">>)
    /\ ver_in = PyStr(<<"0", ".", "2", ".", "0">>)
    /\ ver_result.value = FALSE

(***************************************************************************)
(* Claims about validate_dependencies, checked under SpecDeps.             *)
(***************************************************************************)
VdEnded == vd_pc \in {"returned", "raised"}
ErrorItems == IF vd_error.kind = "ValueError" THEN vd_error.items ELSE <<>>
Listed(entry) == \E k \in 1..Len(ErrorItems) : ErrorItems[k] = entry
IsGroup(i) == dependencies[i][1] # K_jivas /\ dependencies[i][2].t = "dict"
S_jivas_ge99 ==
    <<"j", "i", "v", "a", "s", " ", ">", "=", "9", "9", ".", "0", ".", "0">>

\* C5: when the registry returns nothing for a nested (name, specifier) of a
\* group, the call raises, and the error names the group key and its whole
\* nested mapping.
C5_GroupMissingRaises ==
    (VdEnded /\ \A k \in 1..Len(lookups) : ~lookups[k].package) =>
        \A i \in 1..Len(dependencies) :
            (IsGroup(i) /\ dependencies[i][2].items # <<>>) =>
                /\ vd_pc = "raised"
                /\ Listed(GroupEntry(dependencies[i][1], dependencies[i][2]))

\* C6: the entry "jivas" is checked with is_version_compatible against the
\* platform version and never looked up in the registry; the error names
\* "jivas <spec>" when it is incompatible (">=99.0.0" against 2.1.0), and
\* nothing is recorded for it when it is compatible.
C6_Jivas ==
    /\ \A k \in 1..Len(lookups) : lookups[k].name # K_jivas
    /\ VdEnded =>
        \A i \in 1..Len(dependencies) :
            dependencies[i][1] = K_jivas =>
                /\ \E k \in 1..Len(version_checks) :
                        version_checks[k] = dependencies[i][2]
                /\ IF is_version_compatible(jvcli_version, dependencies[i][2])
                   THEN ~Listed(JivasEntry(dependencies[i][2]))
                   ELSE vd_pc = "raised" /\ Listed(JivasEntry(dependencies[i][2]))
    /\ (VdEnded /\ \E i \in 1..Len(dependencies) :
                        dependencies[i] = <<K_jivas, PyStr(S_ge99)>>)
          => vd_pc = "raised" /\ Listed(PyStr(S_jivas_ge99))
\* {"jivas": ">=99.0.0"} against 2.1.0 has raised
C6_Witness ==
    /\ vd_pc = "raised"
    /\ jvcli_version = PyStr(<<"2", ".", "1", ".", "0">>)
    /\ dependencies = <<<<K_jivas, PyStr(S_ge99)>>>>
    /\ vd_error.items = <<PyStr(S_jivas_ge99)>>

\* C7: a key that is neither "jivas" nor "actions" nor "pip" makes the call
\* raise "unknown dependency type"; a "pip" entry alone raises nothing.
C7_UnknownKeyRaises ==
    VdEnded =>
        /\ (\E i \in 1..Len(dependencies) :
                dependencies[i][1] \notin {K_jivas, K_actions, K_pip})
              => vd_pc = "raised" /\ vd_error.message = "Unknown dependency type"
        /\ (Len(dependencies) = 1 /\ dependencies[1][1] = K_pip)
              => vd_pc = "returned"

\* C8: no raise happens inside the loop; after the full pass one error is
\* raised that lists every unsatisfied dependency: the incompatible "jivas"
\* entry and every entry whose lookup returned nothing.
C8_AllUnsatisfiedListed ==
    /\ vd_pc = "raised" => vd_i > Len(dependencies)
    /\ VdEnded =>
        /\ \A i \in 1..Len(dependencies) :
              (/\ dependencies[i][1] = K_jivas
               /\ ~is_version_compatible(jvcli_version, dependencies[i][2]))
              => vd_pc = "raised" /\ Listed(JivasEntry(dependencies[i][2]))
        /\ \A k \in 1..Len(lookups) :
              ~lookups[k].package =>
                  /\ vd_pc = "raised"
                  /\ \E j \in 1..Len(ErrorItems) :
                        /\ ErrorItems[j].t = "fmt"
                        /\ ErrorItems[j].dep = lookups[k].name

\* the nested (name, specifier) pairs of the groups of a map, in order
RECURSIVE C9_NestedPairs(_)
C9_NestedPairs(items) ==
    IF items = <<>> THEN <<>>
    ELSE (IF items[1][1] # K_jivas /\ items[1][2].t = "dict"
          THEN [k \in 1..Len(items[1][2].items) |->
                    [name |-> items[1][2].items[k][1],
                     version |-> items[1][2].items[k][2]]]
          ELSE <<>>)
         \o C9_NestedPairs(Tail(items))
\* C9: for a group, one lookup is made per nested (package name, specifier)
\* pair, with that name and that specifier: two packages, two lookups.
C9_LookupPerNestedPair ==
    (VdEnded /\ \A i \in 1..Len(dependencies) :
                    dependencies[i][1] = K_jivas \/ dependencies[i][2].t = "dict")
    => [k \in 1..Len(lookups) |->
            [name |-> lookups[k].name, version |-> lookups[k].version]]
       = C9_NestedPairs(dependencies)

ClausesAfterCaret(t2) == IF ~t2.ok THEN Raised ELSE SpecifierSet(t2.s)
ClausesAfterTilde(t1) == IF ~t1.ok THEN Raised ELSE ClausesAfterCaret(CaretRewrite(t1.s))
ClausesOf(s) == ClausesAfterTilde(TildeRewrite(s))

\* the call reached the comparator set: the version parsed, the specifier is
\* no bare version, and it gave a set of at least one clause
ReachedClauses ==
    /\ VerDone
    /\ parse_version(ver_in).ok
    /\ spec_in.t = "str"
    /\ ~parse_version(spec_in).ok
    /\ ClausesOf(spec_in.s).ok
    /\ ClausesOf(spec_in.s).specs # {}

\* one clause under plain precedence: major, minor, patch numerically, and a
\* pre-release below the release it precedes
SemverSatisfies(v, sp) ==
    CASE sp.op = <<">", "=">> -> VersionLessEq(sp.version, v)
      [] sp.op = <<"<", "=">> -> VersionLessEq(v, sp.version)
      [] sp.op = <<"=", "=">> -> VersionEq(v, sp.version)
      [] sp.op = <<"!", "=">> -> ~VersionEq(v, sp.version)
      [] sp.op = <<"<">> -> VersionLess(v, sp.version)
      [] sp.op = <<">">> -> VersionLess(sp.version, v)
SemverSatisfiesAll(v, set) == \A sp \in set.specs : SemverSatisfies(v, sp)

\* C16 as stated: on a comparator set, as given or as rewritten from ~ or ^,
\* is_version_compatible returns true exactly when the version satisfies every
\* clause under semantic-version precedence.
C16_IffEveryClause ==
    ReachedClauses =>
        ver_result.value =
            SemverSatisfiesAll(parse_version(ver_in), ClausesOf(spec_in.s))

\* C16 amended: a true result means every clause is satisfied, for every
\* version; the converse holds for a version without a pre-release tag.
C16_IffEveryClauseForReleases ==
    ReachedClauses =>
        /\ ver_result.value =>
              SemverSatisfiesAll(parse_version(ver_in), ClausesOf(spec_in.s))
        /\ ~is_prerelease(parse_version(ver_in)) =>
              ver_result.value =
                  SemverSatisfiesAll(parse_version(ver_in), ClausesOf(spec_in.s))

\* a release version against a set of two clauses of which exactly one is
\* unsatisfied, and the result is false
C16_Witness ==
    /\ ReachedClauses
    /\ ~is_prerelease(parse_version(ver_in))
    /\ Cardinality(ClausesOf(spec_in.s).specs) = 2
    /\ Cardinality({sp \in ClausesOf(spec_in.s).specs :
                        ~SemverSatisfies(parse_version(ver_in), sp)}) = 1
    /\ ver_result.value = FALSE

\* no clause of the set names a pre-release
BareRange(set) == \A sp \in set.specs : ~is_prerelease(sp.version)

\* C17: a pre-release version is rejected by every comparator set none of
\* whose bounds carries a pre-release tag (1.0.0-alpha against
\* >=1.0.0,<2.0.0), and is accepted where a bound names a pre-release that
\* admits it: 1.0.0-alpha by >=1.0.0-alpha,<2.0.0 and 1.0.0-beta by
\* ^1.0.0-alpha.
C17_Prerelease ==
    /\ (ReachedClauses /\ is_prerelease(parse_version(ver_in))
          /\ BareRange(ClausesOf(spec_in.s)))
         => ver_result.value = FALSE
    /\ (VerDone /\ ver_in = PyStr(S_alpha) /\ spec_in = PyStr(S_ge1_lt2))
         => ver_result.value = FALSE
    /\ (VerDone /\ ver_in = PyStr(S_alpha) /\ spec_in = PyStr(S_ge_alpha_lt2))
         => ver_result.value = TRUE
    /\ (VerDone /\ ver_in = PyStr(S_beta) /\ spec_in = PyStr(S_caret_alpha))
         => ver_result.value = TRUE

\* 1.0.0-beta was checked against ^1.0.0-alpha and accepted
C17_Witness ==
    /\ ReachedClauses
    /\ ver_in = PyStr(S_beta)
    /\ spec_in = PyStr(S_caret_alpha)
    /\ ~BareRange(ClausesOf(spec_in.s))
    /\ ver_result.value = TRUE

\* a pre-release inside a bare range, by plain precedence, was rejected
C17_WitnessRejected ==
    /\ ReachedClauses
    /\ is_prerelease(parse_version(ver_in))
    /\ BareRange(ClausesOf(spec_in.s))
    /\ SemverSatisfiesAll(parse_version(ver_in), ClausesOf(spec_in.s))
    /\ ver_result.value = FALSE

(***************************************************************************)
(* compress_package_to_tgz: claims C11 to C15.                             *)
(***************************************************************************)
TgzEnded == tgz_pc \in {"returned", "raised"}
MemberSet == {tar_members[i] : i \in DOMAIN tar_members}
NoDuplicates(seq) == \A i, j \in DOMAIN seq : i # j => seq[i] # seq[j]
ExcludedNames == {"__jac_gen__", "__pycache__"}
\* a path below the source directory, named from the source directory
BelowSource(p) == Len(p) > Len(source_path) /\ IsPrefix(source_path, p)
FromSource(p) == SubSeq(p, Len(source_path) + 1, Len(p))
\* the directories below the source directory that bear an excluded name
ExcludedSubtrees == {d \in fs_dirs : BelowSource(d) /\ BaseName(d) \in ExcludedNames}
\* the regular files among `files` that lie below the source directory and
\* in no excluded subtree, each named from the source directory
Eligible(files) ==
    {FromSource(f) : f \in {g \in files :
        /\ BelowSource(g)
        /\ \A k \in (Len(source_path) + 1)..(Len(g) - 1) : g[k] \notin ExcludedNames}}
ExampleTree ==
    {<<"file1.txt">>, <<"subdir", "file2.txt">>, <<"__jac_gen__", "x">>,
     <<"__pycache__", "y">>}

\* C11: at every moment of the call, no member of the archive is an excluded
\* directory (__jac_gen__ or __pycache__, at any depth of the source tree) or
\* lies below one, and no member name has a directory component of that name.
C11_NoExcludedMember ==
    \A m \in MemberSet :
        /\ \A d \in ExcludedSubtrees : ~IsPrefix(FromSource(d), m)
        /\ \A k \in 1..(Len(m) - 1) : m[k] \notin ExcludedNames

\* the call returned for a tree that holds an excluded directory below
\* another directory, beside a file that was archived
C11_Witness ==
    /\ tgz_pc = "returned"
    /\ \E d \in ExcludedSubtrees : Len(FromSource(d)) >= 2
    /\ \E d \in ExcludedSubtrees : \E f \in fs_files0 : IsPrefix(d, f)
    /\ <<"subdir", "file2.txt">> \in MemberSet

\* C12 as stated: on return the member names are exactly the regular files
\* under source_dir outside the excluded subtrees (those there when the call
\* began, or those there when it returns), named from source_dir, and the
\* value returned is output_path.
C12_MembersAreAllFiles ==
    tgz_pc = "returned" =>
        /\ MemberSet = Eligible(fs_files0) \/ MemberSet = Eligible(fs_files)
        /\ tgz_result = [kind |-> "return", value |-> output_filename]

\* C12 amended: on return the member names are exactly the regular files
\* under source_dir outside the excluded subtrees other than the output
\* archive itself, each once and named from source_dir, and the value
\* returned is output_path; the tree file1.txt, subdir/file2.txt,
\* __jac_gen__/x, __pycache__/y gives exactly file1.txt and subdir/file2.txt.
C12_MembersAreAllFilesButArchive ==
    tgz_pc = "returned" =>
        /\ MemberSet = Eligible(fs_files0 \ {output_filename})
        /\ NoDuplicates(tar_members)
        /\ tgz_result = [kind |-> "return", value |-> output_filename]
        /\ fs_files0 = {source_path \o f : f \in ExampleTree}
              => MemberSet = {<<"file1.txt">>, <<"subdir", "file2.txt">>}

\* the call returned for the tree of the example
C12_Witness ==
    /\ tgz_pc = "returned"
    /\ fs_files0 = {source_path \o f : f \in ExampleTree}
    /\ Len(source_path) = 2
    /\ tar_members \in {<<<<"file1.txt">>, <<"subdir", "file2.txt">>>>,
                        <<<<"subdir", "file2.txt">>, <<"file1.txt">>>>}

\* C13: when source_dir does not exist the call ends with a filesystem error
\* raised to the caller, and returns no output path.
C13_MissingSourceRaises ==
    (TgzEnded /\ source_path \notin fs_dirs) =>
        /\ tgz_pc = "raised"
        /\ tgz_error \in FsErrors
        /\ tgz_result = NoResult

\* C14: an error raised by tarfile.open or by tar.add reaches the caller as
\* it was raised: the call ends there with that error and no return value,
\* the archive was opened once and no file was handed to tar.add twice.
C14_ErrorPropagates ==
    /\ open_calls <= 1
    /\ NoDuplicates(add_calls)
    /\ tgz_fault # NoError =>
          /\ tgz_pc = "raised"
          /\ tgz_error = tgz_fault
          /\ tgz_result = NoResult
    /\ tgz_pc = "raised" => tgz_error = tgz_fault /\ tgz_fault \in FsErrors

\* tar.add raised a permission error after another file had been added, and
\* the call ended with that error
C14_Witness ==
    /\ tgz_pc = "raised"
    /\ tgz_error = [kind |-> "PermissionError"]
    /\ Len(add_calls) >= 2
    /\ Len(tar_members) = Len(add_calls) - 1

\* C15: when the call has ended, by return or by an exception, the archive
\* handle is not open: it is closed, or tarfile.open raised and gave none.
C15_HandleClosed ==
    TgzEnded =>
        /\ tar_handle # "open"
        /\ tar_handle = "none" => tgz_pc = "raised" /\ add_calls = <<>>
        /\ (tgz_pc = "returned" \/ add_calls # <<>>) => tar_handle = "closed"

\* the call ended with an error of tar.add, and the handle is closed
C15_Witness ==
    /\ tgz_pc = "raised"
    /\ add_calls # <<>>
    /\ tgz_fault # NoError
    /\ tar_handle = "closed"

\* the call returned, and the handle is closed
C15_WitnessReturned ==
    /\ tgz_pc = "returned"
    /\ tar_members # <<>>
    /\ tar_handle = "closed"

(***************************************************************************)
(* call_api and the endpoint wrappers: claims C18 to C20.                  *)
(***************************************************************************)
ApiReturned == api_pc \in {"called", "done"}
ReturnedNone == [kind |-> "return", value |-> PyNone]
EmptyStr == PyStr(<<>>)

\* C18: when the session holds no token (TOKEN absent or the empty string),
\* call_api issues no HTTP request and returns None, whatever the endpoint,
\* the method and the headers.
C18_NoTokenNoRequest ==
    session_state0.TOKEN \in {Absent, EmptyStr} =>
        /\ http_requests = <<>>
        /\ ApiReturned => api_result = ReturnedNone

\* call_api was called directly with GET and an empty token, and returned
\* None with nothing sent
C18_Witness ==
    /\ api_pc = "done"
    /\ api_fn = "call_api"
    /\ api_method = "GET"
    /\ session_state0.TOKEN = EmptyStr
    /\ http_requests = <<>>
    /\ fn_result = ReturnedNone

\* the server answered 401, or issuing the request raised
UnauthorizedOrRaised ==
    \/ http_reply.kind = "raise"
    \/ http_reply.kind = "response" /\ http_reply.status = 401

\* C19: when the server answers 401 or issuing the request raises, call_api
\* returns None and EXPIRATION is the empty string afterwards; TOKEN and
\* ROOT_ID of the session are never changed, and call_api returns and raises
\* nothing.
C19_UnauthorizedClearsExpiration ==
    /\ (ApiReturned /\ UnauthorizedOrRaised) =>
          /\ api_result = ReturnedNone
          /\ session_state.EXPIRATION = EmptyStr
    /\ session_state.TOKEN = session_state0.TOKEN
    /\ session_state.ROOT_ID = session_state0.ROOT_ID
    /\ ApiReturned => api_result.kind = "return"

\* the server answered 401 to a session whose EXPIRATION was set, and
\* EXPIRATION is now the empty string
C19_Witness ==
    /\ ApiReturned
    /\ http_reply.kind = "response"
    /\ http_reply.status = 401
    /\ Len(http_requests) = 1
    /\ session_state0.EXPIRATION = PyStr(<<"9", "9">>)
    /\ session_state.EXPIRATION = EmptyStr
    /\ session_state.TOKEN = PyStr(S_tok)

\* the request raised for a session whose EXPIRATION was absent
C19_WitnessRaised ==
    /\ ApiReturned
    /\ http_reply.kind = "raise"
    /\ session_state0.EXPIRATION = Absent
    /\ session_state.EXPIRATION = EmptyStr

\* the empty default the claim gives each wrapper
ClaimedDefault(fn) ==
    IF fn \in {"call_list_actions", "call_import_agent"}
    THEN PyList(<<>>)
    ELSE PyDict(<<>>)
\* the reports list of what call_api gave the wrapper
ReplyReports ==
    IF api_result.value.t = "dict"
    THEN DictGet(api_result.value, "reports", PyList(<<>>))
    ELSE PyList(<<>>)
HasReports == ReplyReports.t = "list" /\ ReplyReports.items # <<>>

\* C20: each wrapper returns reports[0] of the reply when the reports list is
\* not empty and otherwise its empty default, also after an unauthorized or
\* failed call, and raises nothing; the default is {} for call_healthcheck,
\* call_get_agent, call_update_agent, call_update_action and call_get_action,
\* and [] for call_list_actions and call_import_agent.
C20_WrapperDefaults ==
    (api_pc = "done" /\ api_fn \in Wrappers) =>
        /\ fn_result.kind = "return"
        /\ fn_result.value =
              IF HasReports THEN ReplyReports.items[1] ELSE ClaimedDefault(api_fn)

(***************************************************************************)
(* validate_yaml_format and validate_package_name: claims C21 and C22.     *)
(***************************************************************************)
YfRejected == yf_result.kind = "raise" /\ yf_result.error = "ValueError"

\* C21: validate_yaml_format accepts info data that holds every key of the
\* template, extra keys or not (empty info against an empty template
\* included), rejects info data that lacks a key of the template, and
\* reports a missing template file as a failure.
C21_ExtraKeysAccepted ==
    (yf_pc = "done" /\ TemplatePath(yf_type) # "unbound") =>
        /\ (template_exists /\ template_data \subseteq info_data)
              => yf_result.kind = "return"
        /\ (template_exists /\ ~(template_data \subseteq info_data)) => YfRejected
        /\ ~template_exists => YfRejected

\* the groups of the user, and the part of a name before its first "/"
GroupsOf(token) ==
    {TokenGroups(token).items[k] : k \in DOMAIN TokenGroups(token).items}
HasNamespaceIn(name, groups) ==
    \E i \in 1..Len(name) :
        /\ name[i] = "/"
        /\ \A j \in 1..(i - 1) : name[j] # "/"
        /\ PyStr(SubSeq(name, 1, i - 1)) \in groups

\* C22: validate_package_name returns exactly when the name holds a "/" and
\* the part before the first "/" is one of the user's groups; every other
\* name (no "/", empty namespace, namespace outside the groups) raises
\* ValueError; slashes after the first do not matter.
C22_Namespace ==
    pn_pc = "done" =>
        /\ HasNamespaceIn(pn_name, GroupsOf(pn_token))
              => pn_result = [kind |-> "return", value |-> PyNone]
        /\ ~HasNamespaceIn(pn_name, GroupsOf(pn_token))
              => pn_result.kind = "raise" /\ pn_result.error = "ValueError"
        /\ (pn_name # <<>> /\ pn_name[1] = "/") => pn_result.kind = "raise"

\* a name with two slashes was accepted for a user of its namespace
C22_Witness ==
    /\ pn_pc = "done"
    /\ pn_name = N_ns \o <<"/", "s", "u", "b", "/", "p", "a", "c", "k">>
    /\ PyStr(N_ns) \in GroupsOf(pn_token)
    /\ pn_result.kind = "return"

\* a name with an empty namespace was rejected
C22_WitnessEmpty ==
    /\ pn_pc = "done"
    /\ pn_name = <<"/", "p", "a", "c", "k">>
    /\ GroupsOf(pn_token) # {}
    /\ pn_result.kind = "raise"

(***************************************************************************)
(* Claims about app_controls, checked under SpecControls.                  *)
(***************************************************************************)
SameValue(a, b) == a.t = b.t /\ a = b
FieldNow(key) == DictGet(ac_model, key, Absent)
ShownError(key) == \E i \in DOMAIN ac_errors : ac_errors[i] = key
\* the fields of this run that were rendered as a YAML text area
ListEntries == {i \in DOMAIN ac_entered : ac_entered[i].old.t = "list"}
DictEntries == {i \in DOMAIN ac_entered : ac_entered[i].old.t = "dict"}
IsListValue(r) == r.ok /\ r.value.t = "list"
ListFieldRule(e, r) ==
    IF IsListValue(r)
    THEN SameValue(FieldNow(e.key), r.value) /\ ~ShownError(e.key)
    ELSE SameValue(FieldNow(e.key), e.old) /\ ShownError(e.key)
ListStaysList ==
    \A i \in DOMAIN ac_model0.items :
        ac_model0.items[i][2].t = "list" => FieldNow(ac_model0.items[i][1]).t = "list"
ListFieldsFollowRule ==
    \A i \in ListEntries : ListFieldRule(ac_entered[i], YamlLoad(ac_entered[i].text))
DictFieldAsClaimed(e, r) ==
    IF r.ok
    THEN SameValue(FieldNow(e.key), r.value)
    ELSE SameValue(FieldNow(e.key), e.old) /\ ShownError(e.key)
OrEmptyDict(v) == IF Truthy(v) THEN v ELSE PyDict(<<>>)
DictFieldRule(e, r) ==
    IF r.ok
    THEN SameValue(FieldNow(e.key), OrEmptyDict(r.value)) /\ ~ShownError(e.key)
    ELSE SameValue(FieldNow(e.key), e.old) /\ ShownError(e.key)

\* C23: as stated: a list field whose text fails to parse or gives no list,
\* and a dict field whose text fails to parse, keep their value and show an
\* error; otherwise the field holds the parsed value; a list field stays a list
C23_StoresParsedValue ==
    /\ ListFieldsFollowRule
    /\ \A i \in DictEntries :
          DictFieldAsClaimed(ac_entered[i], YamlLoad(ac_entered[i].text))
    /\ ListStaysList
\* C23: amended: the same, except that a dict field whose text parses to an
\* empty or falsy value (None, [], {}, 0) holds {} and not the parsed value
C23_StoresParsedValueOrEmptyDict ==
    /\ ListFieldsFollowRule
    /\ \A i \in DictEntries :
          DictFieldRule(ac_entered[i], YamlLoad(ac_entered[i].text))
    /\ ListStaysList
\* a run in which a list field kept its value after a text that gives no list,
\* and a dict field was given {} for the empty text
C23_Witness ==
    /\ ac_pc = "idle"
    /\ \E i \in ListEntries :
          /\ ac_entered[i].text = T_words
          /\ ShownError(ac_entered[i].key)
          /\ SameValue(FieldNow(ac_entered[i].key), ac_entered[i].old)
    /\ \E i \in DictEntries :
          /\ ac_entered[i].text = T_empty
          /\ SameValue(FieldNow(ac_entered[i].key), PyDict(<<>>))
          /\ ac_entered[i].old.items # <<>>

(***************************************************************************)
(* Claims about dynamic_form, checked under SpecForm.                      *)
(***************************************************************************)
RowIdsDistinct(rows) ==
    \A i, j \in DOMAIN rows : i # j => rows[i].id # rows[j].id
InitialCount == IF df_initial = PyNone THEN 1 ELSE Len(df_initial.items)
\* id is one more than the largest id of the rows, 0 when there are none
IsNextId(id, rows) ==
    /\ \A i \in DOMAIN rows : rows[i].id < id
    /\ IF rows = <<>> THEN id = 0 ELSE \E i \in DOMAIN rows : rows[i].id = id - 1
Others(rows, id) == {i \in DOMAIN rows : rows[i].id # id}
NthOf(indices, n) == CHOOSE i \in indices : Cardinality({k \in indices : k <= i}) = n
\* after is before without the rows of that id, the others kept in their order
IsBeforeWithout(after, before, id) ==
    /\ Len(after) = Cardinality(Others(before, id))
    /\ \A n \in DOMAIN after : after[n] = before[NthOf(Others(before, id), n)]
AfterInit(rows) ==
    /\ Len(rows) = InitialCount
    /\ \A i \in DOMAIN rows : rows[i].id = i - 1
AfterAddRow(rows, before) ==
    /\ Len(rows) = Len(before) + 1
    /\ SubSeq(rows, 1, Len(before)) = before
    /\ IsNextId(rows[Len(rows)].id, before)
RowRules(rows) ==
    /\ RowIdsDistinct(rows)
    /\ df_last.op = "init" => AfterInit(rows)
    /\ df_last.op = "add_row" => AfterAddRow(rows, df_last.before)
    /\ df_last.op = "remove_row" => IsBeforeWithout(rows, df_last.before, df_last.id)
\* C25: the ids of the rows in session state are pairwise distinct; the first
\* call numbers the rows 0..n-1 (one row 0 without initial data), add_row
\* appends a row whose id is the largest id plus one (0 for an empty form),
\* and remove_row drops the row of the given id and nothing else
C25_RowIds == df_rows.t = "list" => RowRules(df_rows.items)
\* a row was added after a row with a smaller id had been removed, and a row
\* in the middle of three was removed
C25_Witness ==
    /\ df_rows.t = "list"
    /\ \/ /\ df_last.op = "add_row"
          /\ Len(df_last.before) = 1
          /\ df_last.before[1].id = 1
       \/ /\ df_last.op = "remove_row"
          /\ Len(df_last.before) = 3
          /\ df_last.id = df_last.before[2].id
          /\ Len(df_rows.items) = 2

(***************************************************************************)
(* Claims about _publish_common, checked under SpecPublish.                *)
(***************************************************************************)
Gates ==
    <<"load_token", "exists", "validate_yaml_format", "validate_package_name",
      "validate_dependencies">>
IsGate(call) == \E k \in DOMAIN Gates : Gates[k] = call
GatesPassedBefore(i) ==
    /\ i > Len(Gates)
    /\ \A k \in DOMAIN Gates : pub_log[k] = Call(Gates[k], TRUE)
GateFailed == \E i \in DOMAIN pub_log : IsGate(pub_log[i].call) /\ ~pub_log[i].ok
NothingPublished ==
    /\ pub_archive = PyNone
    /\ pub_uploads = <<>>
    /\ \A i \in DOMAIN pub_log : IsGate(pub_log[i].call)
\* the archive and the upload come after the five gates, passed in their
\* order, and a command with a failed gate has ended with nothing published
ArchiveOnlyAfterGates ==
    /\ \A i \in DOMAIN pub_log : ~IsGate(pub_log[i].call) => GatesPassedBefore(i)
    /\ pub_archive # PyNone => GatesPassedBefore(Len(pub_log))
    /\ GateFailed => pub_pc = "done" /\ NothingPublished
\* C24: the archive is created and the upload attempted only after the five
\* gates passed in their order, and when a gate fails the command returns
\* with no archive created and no call of the publish endpoint
C24_GateFailureReturns ==
    /\ ArchiveOnlyAfterGates
    /\ GateFailed => pub_exit = "return"

PublishCalls == {i \in DOMAIN pub_log : pub_log[i].call = "RegistryAPI.publish_action"}
ArchiveWrittenBefore(i) ==
    \E j \in 1..(i - 1) : pub_log[j] = Call("compress_package_to_tgz", TRUE)
GivenOrCurrentDir == IF pub_output = PyNone THEN D_cwd ELSE pub_output.s
C26_WitnessUpload ==
    /\ pub_pc = "done"
    /\ ~pub_file_only
    /\ Len(pub_uploads) = 1
    /\ pub_archive.dir \in {D_tmp, D_out}

(***************************************************************************)
(* The archive inside its own source tree, checked under SpecArchive.      *)
(***************************************************************************)
OutputInsideSource ==
    /\ IsPrefix(source_path, output_filename)
    /\ Len(output_filename) > Len(source_path)
    /\ \A k \in DOMAIN output_filename : output_filename[k] \notin ExcludedNames
HandedToAdd(file_path) == \E i \in DOMAIN add_calls : add_calls[i] = file_path
\* C27: as stated: when output_filename lies inside source_path, outside the
\* excluded directories, the archive's own relative path is a member of the
\* archive the call returns
C27_ArchiveListsItself ==
    (tgz_pc = "returned" /\ OutputInsideSource) =>
        FromSource(output_filename) \in MemberSet
\* C27: amended: the output file, opened before the walk, is listed by the
\* walk and handed to tar.add, which skips the archive itself: its relative
\* path is no member of the archive the call returns
C27_ArchiveHandedToAddAndSkipped ==
    (tgz_pc = "returned" /\ OutputInsideSource) =>
        /\ HandedToAdd(output_filename)
        /\ FromSource(output_filename) \notin MemberSet
\* the call returned an archive written into a source tree that held no file
\* of that name before, with other files archived
C27_Witness ==
    /\ tgz_pc = "returned"
    /\ OutputInsideSource
    /\ output_filename \notin fs_files0
    /\ HandedToAdd(output_filename)
    /\ MemberSet # {}

(***************************************************************************)
(* Claims about the studio API, checked under SpecStudio.                  *)
(***************************************************************************)
StudioAnswered == studio_pc = "idle" /\ studio_response # NoReply
TokenOfRequest == studio_request.auth.credentials
TokenMissing == ~HasBearerCredentials(studio_request.auth)
TokenUndecryptable ==
    HasBearerCredentials(studio_request.auth) /\ Decrypt(TokenOfRequest) = PyNone
NoDataRead == studio_reads = <<>> /\ (StudioAnswered => studio_response.data = <<>>)
\* data is read for a guarded request only after its token was decrypted
ReadsFollowValidation ==
    (require_auth /\ studio_reads # <<>>) =>
        /\ studio_decrypts = <<TokenOfRequest>>
        /\ Truthy(Decrypt(TokenOfRequest))
OpenWithoutAuth ==
    ~require_auth =>
        /\ studio_decrypts = <<>>
        /\ StudioAnswered =>
              /\ studio_response.status = 200
              /\ studio_response.data = ReadsOf(studio_request.endpoint)
\* C28: as stated: with authentication required a request whose token is
\* missing or cannot be decrypted is answered 401 and no data is read or
\* returned, data is read only after the token was validated, and without
\* required authentication data is returned with no token check
C28_Unauthorized401 ==
    /\ (require_auth /\ (TokenMissing \/ TokenUndecryptable)) =>
          /\ NoDataRead
          /\ StudioAnswered => studio_response.status = 401
    /\ ReadsFollowValidation
    /\ OpenWithoutAuth
\* C28: amended: the same, except that a request without bearer credentials
\* is answered by the HTTPBearer dependency, with 403 or 401, before the
\* endpoint and its token check run; no data is read or returned
C28_UnauthorizedRejected ==
    /\ (require_auth /\ TokenUndecryptable) =>
          /\ NoDataRead
          /\ StudioAnswered => studio_response.status = 401
    /\ (require_auth /\ TokenMissing) =>
          /\ NoDataRead
          /\ studio_decrypts = <<>>
          /\ StudioAnswered => studio_response.status \in {401, 403}
    /\ ReadsFollowValidation
    /\ OpenWithoutAuth
\* a guarded node request with a token that cannot be decrypted was answered
\* 401 after one decrypt and no read
C28_Witness ==
    /\ require_auth
    /\ StudioAnswered
    /\ studio_request.endpoint = "node"
    /\ TokenUndecryptable
    /\ studio_decrypts = <<S_bad>>
    /\ studio_response.status = 401
    /\ studio_reads = <<>>

(***************************************************************************)
(* Claims about get_nodes_and_edges, checked under SpecGraphFair.          *)
(***************************************************************************)
GneStart == LastPart(gne_node_id)
EdgesFrom(ids) == {e \in gne_edges_db : \E n \in ids : SourceMatches(e.source, n)}
\* the ids within k hops of the start node, along edges that lead to a node
RECURSIVE WithinHops(_)
WithinHops(k) ==
    IF k <= 0 THEN {GneStart}
    ELSE WithinHops(k - 1)
         \cup ({LastPart(e.target) : e \in EdgesFrom(WithinHops(k - 1))} \cap gne_nodes_db)
CollectedWithinDepth ==
    IF gne_depth <= 0
    THEN gne_edges = <<>> /\ gne_nodes = <<>>
    ELSE /\ \A i \in DOMAIN gne_edges : gne_edges[i] \in EdgesFrom(WithinHops(gne_depth - 1))
         /\ \A i \in DOMAIN gne_nodes : gne_nodes[i] \in WithinHops(gne_depth)
\* C29: on every graph, with cycles or without, the call ends, and all it ever
\* collects are edges that leave a node within depth-1 hops of the start node
\* and nodes within depth hops of it, nothing at all when depth <= 0
C29_TerminatesWithinDepth == <>(gne_pc = "done") /\ []CollectedWithinDepth
\* the call ended on a graph with the cycle 1 -> 2 -> 1, having gone round it
C29_Witness ==
    /\ gne_pc = "done"
    /\ {Edge(2, 1, 2), Edge(4, 2, 1)} \subseteq gne_edges_db
    /\ gne_depth = MaxDepth
    /\ GneStart = NodeId(1)
    /\ \E i, j \in DOMAIN gne_edges :
          i < j /\ gne_edges[i] = Edge(2, 1, 2) /\ gne_edges[j] = Edge(4, 2, 1)
    /\ \E i \in DOMAIN gne_nodes : gne_nodes[i] = GneStart

(***************************************************************************)
(* Claims about `jvcli server initagents`, checked under SpecInitAgents.   *)
(***************************************************************************)
InitAgentsSent == ia_requests # <<>>
StepsBeforeRequest ==
    <<Call("is_server_running", TRUE), Call("login_jivas", TRUE), Call("clean", TRUE)>>
IaEnded == ia_pc = "ended"
RequestFailed ==
    \/ ia_reply.kind = "exception"
    \/ ia_reply.kind = "response" /\ ia_reply.status # 200
\* C30: the init_agents request is sent only after the server check
\* succeeded, login gave a token and clean ran, in that order, and at most
\* once; a server that is not running or a login without token ends the
\* command with status 1 and no request; a reply other than 200 or a request
\* error ends it with status 1
C30_InitAgentsOrder ==
    /\ InitAgentsSent =>
          /\ Len(ia_requests) = 1
          /\ SubSeq(ia_log, 1, 3) = StepsBeforeRequest
          /\ Len(ia_log) = 4 /\ ia_log[4].call = "init_agents"
          /\ ia_running /\ Truthy(ia_token)
    /\ (IaEnded /\ (~ia_running \/ ~Truthy(ia_token))) =>
          ia_exit = 1 /\ ~InitAgentsSent
    /\ (IaEnded /\ InitAgentsSent /\ RequestFailed) => ia_exit = 1
    /\ (IaEnded /\ ia_exit = 0) => InitAgentsSent /\ ~RequestFailed
\* the command ended with status 1 after a request that was sent in its turn
C30_Witness ==
    /\ IaEnded
    /\ InitAgentsSent
    /\ RequestFailed
    /\ ia_exit = 1
    /\ SubSeq(ia_log, 1, 3) = StepsBeforeRequest
\* the command ended with status 1 and no request after a login without token
C30_WitnessNoToken ==
    /\ IaEnded
    /\ ia_running
    /\ ia_token = PyStr(<<>>)
    /\ ia_exit = 1
    /\ ~InitAgentsSent

=============================================================================
